---- MODULE Spec2Model ----
(***************************************************************************)
(* Model of the sessionbase CLI: the platform adapters (preview            *)
(* generation, line-delimited parsing, the Gemini checkpoint locator, the  *)
(* Q Chat turn parser), the platform registry and the push / pull / ls     *)
(* commands.  Every command invocation is a separate process: an           *)
(* invocation starts from pc = "idle", may suspend at an interactive       *)
(* prompt (pc = "confirm") and ends in pc = "done", after which the        *)
(* process exits.                                                          *)
(*                                                                         *)
(* Strings the code inspects character by character are sequences of       *)
(* one-character strings.                                                  *)
(***************************************************************************)
EXTENDS Integers, Sequences, FiniteSets, TLC

VARIABLES pc, op, arg, out, io

vars == <<pc, op, arg, out, io>>

(***************************************************************************)
(* Bounds of the model.                                                    *)
(***************************************************************************)
MaxBlocks == 2      \* a text is at most MaxBlocks runs of one character
MaxLines == 3       \* lines of a line-delimited session file
MaxFiles == 2       \* checkpoint files in one Gemini hash directory
MaxMsgs == 2        \* messages of a Gemini checkpoint
MaxTurns == 2       \* turns of a Q Chat history

Min(a, b) == IF a < b THEN a ELSE b

None == "null"      \* JavaScript null / undefined

(***************************************************************************)
(* Text helpers.                                                           *)
(***************************************************************************)
Chars == {"a", " ", "\n"}
RunLens == {1, 2, 3, 98, 99, 100, 101}

Rep(c, n) == [i \in 1..n |-> c]

RECURSIVE TextsOf(_)
TextsOf(n) ==
  IF n = 0 THEN {<<>>}
  ELSE LET shorter == TextsOf(n - 1)
       IN  shorter \cup {t \o Rep(c, k) : t \in shorter, c \in Chars, k \in RunLens}

Texts == TextsOf(MaxBlocks)

IsSpace(c) == c \in {" ", "\n", "\t"}          \* the regex class \s

\* text.replace(/\n/g, ' ')
ReplaceNewlines(s) == [i \in 1..Len(s) |-> IF s[i] = "\n" THEN " " ELSE s[i]]

\* text.replace(/\s+/g, ' '): a whitespace character that follows another one
\* is dropped, the first of a run becomes a space (split in halves to keep
\* the evaluation shallow)
RECURSIVE CollapseRange(_, _, _)
CollapseRange(s, lo, hi) ==
  IF lo > hi THEN <<>>
  ELSE IF lo = hi
       THEN IF IsSpace(s[lo])
            THEN IF lo > 1 /\ IsSpace(s[lo - 1]) THEN <<>> ELSE <<" ">>
            ELSE <<s[lo]>>
       ELSE LET mid == (lo + hi) \div 2
            IN  CollapseRange(s, lo, mid) \o CollapseRange(s, mid + 1, hi)

CollapseRuns(s) == CollapseRange(s, 1, Len(s))

\* text.trim()
Trim(s) ==
  LET solid == {i \in 1..Len(s) : ~IsSpace(s[i])}
  IN  IF solid = {} THEN <<>>
      ELSE LET lo == CHOOSE i \in solid : \A j \in solid : i <= j
               hi == CHOOSE i \in solid : \A j \in solid : j <= i
           IN  SubSeq(s, lo, hi)

\* text.substring(0, n)
Substring0(s, n) == SubSeq(s, 1, Min(n, Len(s)))

Ellipsis == <<".", ".", ".">>

PreviewLimit == 100

cleanedText(text) == Trim(CollapseRuns(ReplaceNewlines(text)))

\* SessionUtils.generatePreview / BaseSessionProvider.generatePreview
generatePreview_NoTruncate(text) ==
  LET cleaned == cleanedText(text)
  IN  IF Len(cleaned) <= PreviewLimit THEN cleaned ELSE cleaned \o Ellipsis

generatePreview(text) ==
  LET cleaned == cleanedText(text)
  IN  IF Len(cleaned) <= PreviewLimit
      THEN cleaned
      ELSE Substring0(cleaned, PreviewLimit) \o Ellipsis

\* The preview as the listing parsers of list.ts, the TUI session service and
\* the first Gemini provider compute it inline: the ellipsis is decided on
\* the length of the raw text, not of the cleaned text.
inlinePreview(text) ==
  LET firstMessagePreview == Substring0(cleanedText(text), PreviewLimit)
  IN  IF Len(text) > PreviewLimit
      THEN firstMessagePreview \o Ellipsis
      ELSE firstMessagePreview

(***************************************************************************)
(* Initial state and the preview operations.                               *)
(***************************************************************************)
Init ==
  /\ pc = "idle"
  /\ op = "none"
  /\ arg = <<>>
  /\ out = <<>>
  /\ io = <<>>

\* an invocation starts in a fresh process
Ready == pc = "idle"

\* the process of a finished invocation exits; nothing is kept in memory
\* between invocations
Exit ==
  /\ pc = "done"
  /\ pc' = "idle"
  /\ op' = "none"
  /\ arg' = <<>>
  /\ out' = <<>>
  /\ io' = <<>>

\* a listing calls generatePreview on the first user message; the result is
\* recorded together with the preview of that preview
GeneratePreview ==
  /\ Ready
  /\ \E text \in Texts :
       /\ arg' = text
       /\ out' = [preview |-> generatePreview(text),
                  again |-> generatePreview(generatePreview(text))]
  /\ op' = "generatePreview"
  /\ pc' = "done"
  /\ io' = <<>>

InlinePreview ==
  /\ Ready
  /\ \E text \in Texts :
       /\ arg' = text
       /\ out' = [preview |-> inlinePreview(text),
                  again |-> inlinePreview(inlinePreview(text))]
  /\ op' = "inlinePreview"
  /\ pc' = "done"
  /\ io' = <<>>

(***************************************************************************)
(* Line-delimited (JSONL) session files.  A line of the file is blank,     *)
(* corrupt (JSON.parse throws on it) or the JSON of one transcript entry.  *)
(***************************************************************************)
Str(v) == [t |-> "string", v |-> v]      \* typeof content === 'string'
Arr(v) == [t |-> "array", v |-> v]       \* Array.isArray(content)

ProjectA == <<"/", "a", "/", "p">>
ProjectB == <<"/", "b", "/", "p">>
ProjectC == <<"/", "b", "/", "q">>

UserEntry ==
  [sessionId |-> "s1", cwd |-> ProjectA,
   message |-> [role |-> "user", content |-> Str(<<"h", "i", "\n", "x">>)]]
ToolEntry ==
  [sessionId |-> "s1", cwd |-> ProjectA,
   message |-> [role |-> "assistant",
                content |-> Arr(<<[type |-> "tool_use", text |-> None]>>)]]

BlankLine == [kind |-> "blank"]
CorruptLine == [kind |-> "corrupt"]
JsonLine(v) == [kind |-> "json", val |-> v]

JsonlLine == {BlankLine, CorruptLine, JsonLine(UserEntry), JsonLine(ToolEntry)}

SeqsUpTo(S, n) == UNION {[1..k -> S] : k \in 0..n}

JsonlFiles == SeqsUpTo(JsonlLine, MaxLines)

\* content.trim().split('\n').filter(line => line.trim())
NonBlankLines(file) == SelectSeq(file, LAMBDA l : l.kind # "blank")

ValidLines(file) == SelectSeq(file, LAMBDA l : l.kind = "json")

Return(v) == [kind |-> "return", value |-> v]
Throw(e) == [kind |-> "throw", error |-> e]

\* SessionUtils.parseJsonlFile: every line is parsed, the first line that is
\* not JSON makes the whole parse throw
parseJsonlFile(file) ==
  LET lines == NonBlankLines(file)
      bad == {i \in 1..Len(lines) : lines[i].kind = "corrupt"}
  IN  IF Len(lines) = 0 THEN Throw([msg |-> "Empty session file"])
      ELSE IF bad # {}
           THEN Throw([msg |-> "Invalid JSON on line",
                       line |-> CHOOSE i \in bad : \A j \in bad : i <= j])
           ELSE Return([i \in 1..Len(lines) |-> lines[i].val])

\* ClaudeCodeProvider.extractClaudeMessageText
extractClaudeMessageText(entry) ==
  LET content == entry.message.content
  IN  IF content.t = "string" THEN content.v
      ELSE LET texts == {i \in 1..Len(content.v) : content.v[i].type = "text"}
           IN  IF texts = {} THEN <<>>
               ELSE LET textContent == content.v[CHOOSE i \in texts : \A j \in texts : i <= j]
                    IN  IF textContent.text = None THEN <<>> ELSE textContent.text

\* the first entry of a user with a non-empty text, as an index (0: none)
FirstUserText(entries) ==
  LET hits == {i \in 1..Len(entries) :
                 /\ entries[i].message.role = "user"
                 /\ extractClaudeMessageText(entries[i]) # <<>>}
  IN  IF hits = {} THEN 0 ELSE CHOOSE i \in hits : \A j \in hits : i <= j

\* ClaudeCodeProvider.extractFirstMessagePreview
extractFirstMessagePreview(entries) ==
  LET i == FirstUserText(entries)
  IN  IF i = 0 THEN <<>> ELSE generatePreview(extractClaudeMessageText(entries[i]))

\* ClaudeCodeProvider.parseSession
claudeParseSession(file) ==
  LET parsed == parseJsonlFile(file)
  IN  IF parsed.kind = "throw" THEN parsed
      ELSE LET entries == parsed.value
           IN  Return([messages |-> entries,
                       title |-> "Claude Session <date>",
                       platform |-> "claude-code",
                       messageCount |-> Len(entries),
                       sessionId |-> entries[1].sessionId,
                       cwd |-> entries[1].cwd])

\* ClaudeCodeProvider.parseClaudeSessionMetadata
parseClaudeSessionMetadata(file) ==
  LET parsed == parseJsonlFile(file)
  IN  IF parsed.kind = "throw" THEN parsed
      ELSE Return([messageCount |-> Len(parsed.value),
                   firstMessagePreview |-> extractFirstMessagePreview(parsed.value)])

\* parseClaudeSession of the TUI session service (and of the list command and
\* the first ClaudeCodeProvider): a line that does not parse is skipped by
\* the catch inside the loop, but the count is the number of non-blank lines
parseClaudeSession(file) ==
  LET lines == NonBlankLines(file)
      entries == [i \in 1..Len(ValidLines(file)) |-> ValidLines(file)[i].val]
      tools == {i \in 1..Len(entries) :
                  /\ entries[i].message.content.t = "array"
                  /\ \E k \in 1..Len(entries[i].message.content.v) :
                       entries[i].message.content.v[k].type = "tool_use"}
      \* "if (!firstMessagePreview && ...)": the first user text whose preview
      \* is not the empty string
      hits == {i \in 1..Len(entries) :
                 /\ entries[i].message.role = "user"
                 /\ inlinePreview(extractClaudeMessageText(entries[i])) # <<>>}
  IN  IF Len(lines) = 0 THEN Throw([msg |-> "Empty session file"])
      ELSE Return([messageCount |-> Len(lines),
                   toolCalls |-> Cardinality(tools),
                   firstMessagePreview |->
                     IF hits = {} THEN <<>>
                     ELSE inlinePreview(extractClaudeMessageText(
                            entries[CHOOSE i \in hits : \A j \in hits : i <= j]))])

ParseClaudeSession ==
  /\ Ready
  /\ \E file \in JsonlFiles :
       /\ arg' = file
       /\ out' = claudeParseSession(file)
  /\ op' = "claude.parseSession"
  /\ pc' = "done"
  /\ io' = <<"fs">>

ParseClaudeSessionMetadata ==
  /\ Ready
  /\ \E file \in JsonlFiles :
       /\ arg' = file
       /\ out' = parseClaudeSessionMetadata(file)
  /\ op' = "claude.parseSessionMetadata"
  /\ pc' = "done"
  /\ io' = <<"fs">>

TuiParseClaudeSession ==
  /\ Ready
  /\ \E file \in JsonlFiles :
       /\ arg' = file
       /\ out' = parseClaudeSession(file)
  /\ op' = "tui.parseClaudeSession"
  /\ pc' = "done"
  /\ io' = <<"fs">>

JsonlOps == {"claude.parseSession", "claude.parseSessionMetadata", "tui.parseClaudeSession"}

\* C2: a line-delimited file with at least one valid line parses without
\* throwing, whatever corrupt lines it has besides; the session carries the
\* valid records, and the parse throws only when no line is valid.
C2_CorruptLineSkipped ==
  op = "claude.parseSession" =>
    IF Len(ValidLines(arg)) > 0
    THEN /\ out.kind = "return"
         /\ out.value.messages = [i \in 1..Len(ValidLines(arg)) |-> ValidLines(arg)[i].val]
    ELSE out.kind = "throw"

\* C3: whenever a parse of a line-delimited file reports a messageCount (the
\* full parse or the listing metadata), it is the number of valid lines.
C3_MessageCountIsValidLines ==
  (op \in JsonlOps /\ out.kind = "return") =>
    out.value.messageCount = Len(ValidLines(arg))

(***************************************************************************)
(* The Gemini CLI checkpoint locator.  A hash directory is the sequence of *)
(* its entries in readdir order; an entry has a name, a modification time  *)
(* and tells whether stat succeeds on it.                                  *)
(***************************************************************************)
Now == 200000000                       \* Date.now(), in milliseconds
tenMinutesInMs == 10 * 60 * 1000

Ages == {0, 599999, 600000, 600001, 660000, 3600000, 7200000, 86400000, 172800000}

DirEntry ==
  {[name |-> "checkpoint.json", mtime |-> Now - a, statOk |-> TRUE] : a \in Ages}
  \cup {[name |-> "checkpoint-t.json", mtime |-> Now - 600001, statOk |-> TRUE],
        [name |-> "checkpoint-t.json", mtime |-> Now, statOk |-> FALSE],
        [name |-> "notes.txt", mtime |-> Now, statOk |-> TRUE]}

\* directories: no two entries of a directory have the same name
GeminiDirs ==
  {d \in SeqsUpTo(DirEntry, MaxFiles) :
     \A i, j \in 1..Len(d) : d[i].name = d[j].name => i = j}

\* a hash directory that does not exist
NoDir == <<[name |-> None, mtime |-> 0, statOk |-> FALSE]>>

NoFile == [name |-> None, mtime |-> 0, statOk |-> FALSE]   \* mostRecentFile = null

\* the options argument: absent, or an object with a force flag
LocatorOptions ==
  {[given |-> FALSE, force |-> FALSE], [given |-> TRUE, force |-> FALSE],
   [given |-> TRUE, force |-> TRUE]}

\* options?.force
Force(options) == options.given /\ options.force

Answers == {<<"y">>, <<"Y", "E", "S">>, <<" ", "y", " ">>, <<"n">>, <<>>}

ToLower(c) == CASE c = "Y" -> "y" [] c = "E" -> "e" [] c = "S" -> "s" [] OTHER -> c

\* input.trim().toLowerCase()
NormalizeAnswer(input) == [i \in 1..Len(Trim(input)) |-> ToLower(Trim(input)[i])]

Confirms(answer) == answer = <<"y">> \/ answer = <<"y", "e", "s">>

\* filename.startsWith('checkpoint-') && filename.endsWith('.json')
\*   || filename === 'checkpoint.json'
IsCheckpoint(name) == name \in {"checkpoint.json", "checkpoint-t.json"}

\* the loop of BaseSessionProvider.findMostRecentFile over the matching
\* files: a file whose stat fails is skipped, a file replaces the candidate
\* only when it is strictly newer
RECURSIVE MostRecentLoop(_, _, _, _)
MostRecentLoop(files, i, mostRecentFile, mostRecentTime) ==
  IF i > Len(files) THEN mostRecentFile
  ELSE IF files[i].statOk /\ files[i].mtime > mostRecentTime
       THEN MostRecentLoop(files, i + 1, files[i], files[i].mtime)
       ELSE MostRecentLoop(files, i + 1, mostRecentFile, mostRecentTime)

\* BaseSessionProvider.findMostRecentFile (dir = NoDir: the directory does
\* not exist, readdir throws and the catch returns null)
findMostRecentFile(dir) ==
  IF dir = NoDir THEN NoFile
  ELSE LET matchingFiles == SelectSeq(dir, LAMBDA f : IsCheckpoint(f.name))
       IN  IF Len(matchingFiles) = 0 THEN NoFile
           ELSE MostRecentLoop(matchingFiles, 1, NoFile, 0)

\* GeminiCliProvider.formatFileAge
formatFileAge(fileAge) ==
  LET minutesOld == fileAge \div (60 * 1000)
      hoursOld == fileAge \div (60 * 60 * 1000)
      daysOld == fileAge \div (24 * 60 * 60 * 1000)
  IN  IF daysOld > 0
      THEN [n |-> daysOld, unit |-> IF daysOld # 1 THEN "days" ELSE "day"]
      ELSE IF hoursOld > 0
           THEN [n |-> hoursOld, unit |-> IF hoursOld # 1 THEN "hours" ELSE "hour"]
           ELSE [n |-> minutesOld, unit |-> IF minutesOld # 1 THEN "minutes" ELSE "minute"]

Located(file, prompted) == [kind |-> "return", value |-> file, prompted |-> prompted]
Failed(e, prompted) == [kind |-> "throw", error |-> e, prompted |-> prompted]

\* GeminiCliProvider.handleStaleCheckpoint
handleStaleCheckpoint(file, ageDescription, stdinTTY, stdoutTTY, input) ==
  IF ~stdinTTY \/ ~stdoutTTY
  THEN Failed([msg |-> "Checkpoint is <age> old. Use --force to proceed",
               age |-> ageDescription], FALSE)
  ELSE IF ~Confirms(NormalizeAnswer(input))
       THEN Located(None, TRUE)
       ELSE Located(file.name, TRUE)

\* GeminiCliProvider.validateCheckpointAge
validateCheckpointAge(file, options, stdinTTY, stdoutTTY, input) ==
  LET fileAge == Now - file.mtime
  IN  IF fileAge > tenMinutesInMs /\ ~Force(options)
      THEN handleStaleCheckpoint(file, formatFileAge(fileAge), stdinTTY, stdoutTTY, input)
      ELSE Located(file.name, FALSE)

\* GeminiCliProvider.findMostRecentSession: the whole body is inside a
\* try block whose catch returns null
findMostRecentSession(dir, options, stdinTTY, stdoutTTY, input) ==
  LET mostRecentFile == findMostRecentFile(dir)
  IN  IF mostRecentFile = NoFile THEN Located(None, FALSE)
      ELSE LET r == validateCheckpointAge(mostRecentFile, options, stdinTTY, stdoutTTY, input)
           IN  IF r.kind = "throw" THEN Located(None, r.prompted) ELSE r

\* findMostRecentSession of the first GeminiCliProvider (no BaseSessionProvider):
\* the same steps written inline, with no try block around the age check
findMostRecentSessionInline(dir, options, stdinTTY, stdoutTTY, input) ==
  IF dir = NoDir THEN Located(None, FALSE)
  ELSE LET checkpoints == SelectSeq(dir, LAMBDA f : IsCheckpoint(f.name))
           mostRecentFile == MostRecentLoop(checkpoints, 1, NoFile, 0)
       IN  IF Len(checkpoints) = 0 \/ mostRecentFile = NoFile THEN Located(None, FALSE)
           ELSE LET fileAge == Now - mostRecentFile.mtime
                IN  IF fileAge > tenMinutesInMs /\ ~Force(options)
                    THEN IF ~stdinTTY \/ ~stdoutTTY
                         THEN Failed([msg |-> "Checkpoint is <age> old. Use --force to proceed",
                                      age |-> formatFileAge(fileAge)], FALSE)
                         ELSE IF ~Confirms(NormalizeAnswer(input))
                              THEN Located(None, TRUE)
                              ELSE Located(mostRecentFile.name, TRUE)
                    ELSE Located(mostRecentFile.name, FALSE)

LocatorInputs ==
  [dir : GeminiDirs \cup {NoDir}, options : LocatorOptions,
   stdinTTY : BOOLEAN, stdoutTTY : BOOLEAN, input : Answers]

GeminiFindMostRecentSession ==
  /\ Ready
  /\ \E in \in LocatorInputs :
       /\ arg' = in
       /\ out' = findMostRecentSession(in.dir, in.options, in.stdinTTY, in.stdoutTTY, in.input)
  /\ op' = "gemini.findMostRecentSession"
  /\ pc' = "done"
  /\ io' = <<"fs">>

GeminiFindMostRecentSessionInline ==
  /\ Ready
  /\ \E in \in LocatorInputs :
       /\ arg' = in
       /\ out' = findMostRecentSessionInline(in.dir, in.options, in.stdinTTY, in.stdoutTTY, in.input)
  /\ op' = "gemini.findMostRecentSession.inline"
  /\ pc' = "done"
  /\ io' = <<"fs">>

LocatorOps == {"gemini.findMostRecentSession", "gemini.findMostRecentSession.inline"}

\* the checkpoints of a directory that stat can read
Readable(dir) ==
  IF dir = NoDir THEN {}
  ELSE {dir[i] : i \in {k \in 1..Len(dir) : IsCheckpoint(dir[k].name) /\ dir[k].statOk}}

\* the age of the newest readable checkpoint
NewestAge(dir) ==
  LET newest == CHOOSE f \in Readable(dir) : \A g \in Readable(dir) : g.mtime <= f.mtime
  IN  Now - newest.mtime

\* C1: when the newest checkpoint is at most 10 minutes old the locator
\* returns it without prompting; when it is older, no force flag is set and
\* there is no TTY, the locator throws an error whose message carries the
\* human-readable age.
C1_LocatorAgeGate ==
  (op \in LocatorOps /\ Readable(arg.dir) # {}) =>
    /\ NewestAge(arg.dir) <= tenMinutesInMs =>
         /\ out.kind = "return"
         /\ out.value # None
         /\ ~out.prompted
    /\ (/\ NewestAge(arg.dir) > tenMinutesInMs
        /\ ~Force(arg.options)
        /\ ~(arg.stdinTTY /\ arg.stdoutTTY)) =>
         /\ out.kind = "throw"
         /\ out.error.age = formatFileAge(NewestAge(arg.dir))

(***************************************************************************)
(* The whitespace-collapsed form of a text, stated on its own: the words   *)
(* of the text separated by single spaces.  A whitespace character stays   *)
(* (as one space) exactly when it directly follows a word and another word *)
(* comes after it.                                                         *)
(***************************************************************************)
RECURSIVE KeepRange(_, _, _, _)
KeepRange(t, last, lo, hi) ==
  IF lo > hi THEN <<>>
  ELSE IF lo = hi
       THEN IF ~IsSpace(t[lo]) THEN <<t[lo]>>
            ELSE IF lo > 1 /\ ~IsSpace(t[lo - 1]) /\ lo < last THEN <<" ">>
            ELSE <<>>
       ELSE LET mid == (lo + hi) \div 2
            IN  KeepRange(t, last, lo, mid) \o KeepRange(t, last, mid + 1, hi)

collapsedWhitespace(t) ==
  LET solid == {i \in 1..Len(t) : ~IsSpace(t[i])}
      last == IF solid = {} THEN 0 ELSE CHOOSE i \in solid : \A j \in solid : j <= i
  IN  KeepRange(t, last, 1, Len(t))

PreviewOps == {"generatePreview", "inlinePreview"}

\* C9: a preview is never longer than 103 characters (100 characters plus
\* "..."), and the preview of a text of at most 100 characters is exactly the
\* whitespace-collapsed text.
C9_PreviewBounded ==
  op \in PreviewOps =>
    /\ Len(out.preview) <= PreviewLimit + Len(Ellipsis)
    /\ Len(arg) <= PreviewLimit => out.preview = collapsedWhitespace(arg)

\* a text whose cleaned form is longer than the limit was truncated to
\* exactly 103 characters
C9_Witness ==
  /\ op = "generatePreview"
  /\ Len(cleanedText(arg)) > PreviewLimit
  /\ Len(out.preview) = PreviewLimit + Len(Ellipsis)

\* C10: the preview of a preview is the preview itself, wherever the program
\* generates previews.
C10_PreviewIdempotent ==
  op \in PreviewOps => out.again = out.preview

(***************************************************************************)
(* Q Chat conversations.  A turn bundles a user message and an assistant   *)
(* message, either as a 2-element array or as an object with the fields    *)
(* user and assistant.                                                     *)
(***************************************************************************)
NullMessage == [kind |-> None]

\* userMessage.content.Prompt.prompt
PromptMessage(text) == [kind |-> "Prompt", prompt |-> text]
ToolUseResultsMessage == [kind |-> "ToolUseResults"]
ResponseMessage == [kind |-> "Response", message_id |-> "m1"]

QPrompts == {<<"h", "i">>, <<"h", " ", "\n", "i">>, Rep("a", 101), <<>>}

QUserMessages == {PromptMessage(t) : t \in QPrompts} \cup {ToolUseResultsMessage, NullMessage}
QAssistantMessages == {ResponseMessage, NullMessage}

\* the content of a turn, whatever its shape
QTurnContent == [user : QUserMessages, assistant : QAssistantMessages]

ArrayTurn(c) == [shape |-> "array", items |-> <<c.user, c.assistant>>]
NamedTurn(c) == [shape |-> "named", user |-> c.user, assistant |-> c.assistant]

QShapes == {"array", "named"}
Shaped(c, shape) == IF shape = "array" THEN ArrayTurn(c) ELSE NamedTurn(c)

\* a history of the given content with every turn in the given shape
ShapedHistory(content, shape) == [i \in 1..Len(content) |-> Shaped(content[i], shape)]

\* JavaScript truthiness of a message object
Truthy(msg) == msg # NullMessage

\* userMessage?.content?.Prompt?.prompt || null; the empty text stands for
\* null, both are falsy where the result is used
extractQChatPromptText(userMessage) ==
  IF userMessage.kind = "Prompt" THEN userMessage.prompt ELSE <<>>

\* QChatProvider.extractUserMessage
extractUserMessage(turn) ==
  IF turn.shape = "array" /\ Len(turn.items) >= 2 THEN turn.items[1]
  ELSE IF turn.shape = "named" /\ Truthy(turn.user) THEN turn.user
  ELSE NullMessage

QMetadata(count, preview) == [messageCount |-> count, firstMessagePreview |-> preview]

\* the loop over the history the three parsers share: turns[i].accepted says
\* whether the parser counts the turn, turns[i].user is the user message it
\* reads the prompt from; inline tells which preview code the parser has
RECURSIVE QLoop(_, _, _, _)
QLoop(turns, i, acc, inline) ==
  IF i > Len(turns) THEN acc
  ELSE LET text == extractQChatPromptText(turns[i].user)
           next == IF ~turns[i].accepted THEN acc
                   ELSE QMetadata(acc.messageCount + 2,
                                  IF acc.firstMessagePreview = <<>> /\ text # <<>>
                                  THEN IF inline THEN inlinePreview(text)
                                       ELSE generatePreview(text)
                                  ELSE acc.firstMessagePreview)
       IN  QLoop(turns, i + 1, next, inline)

\* QChatProvider.parseQConversationMetadata
parseQConversationMetadata(history) ==
  QLoop([i \in 1..Len(history) |->
           [accepted |-> Truthy(extractUserMessage(history[i])),
            user |-> extractUserMessage(history[i])]],
        1, QMetadata(0, <<>>), FALSE)

\* the user message the first version of the provider and the session
\* service destructure from a turn
TurnUser(turn) == IF turn.shape = "array" THEN turn.items[1] ELSE turn.user

\* the first version of QChatProvider.parseQConversationMetadata
parseQConversationMetadataInline(history) ==
  QLoop([i \in 1..Len(history) |->
           [accepted |-> \/ history[i].shape = "array" /\ Len(history[i].items) >= 2
                         \/ /\ history[i].shape = "named"
                            /\ Truthy(history[i].user) /\ Truthy(history[i].assistant),
            user |-> TurnUser(history[i])]],
        1, QMetadata(0, <<>>), TRUE)

\* parseQConversation of the session service
parseQConversation(history) ==
  QLoop([i \in 1..Len(history) |->
           [accepted |-> history[i].shape = "array" /\ Len(history[i].items) >= 2,
            user |-> TurnUser(history[i])]],
        1, QMetadata(0, <<>>), TRUE)

QHistories == SeqsUpTo([content : QTurnContent, shape : QShapes], MaxTurns)

QParseOps == {"qchat.parseQConversationMetadata", "qchat.parseQConversationMetadata.inline",
              "tui.parseQConversation"}

QParse(parser, history) ==
  CASE parser = "qchat.parseQConversationMetadata" -> parseQConversationMetadata(history)
    [] parser = "qchat.parseQConversationMetadata.inline" -> parseQConversationMetadataInline(history)
    [] parser = "tui.parseQConversation" -> parseQConversation(history)

\* the history the database row of the input holds
QHistoryOf(in) == [i \in 1..Len(in) |-> Shaped(in[i].content, in[i].shape)]

ParseQConversationMetadata ==
  /\ Ready
  /\ \E in \in QHistories :
       /\ arg' = in
       /\ out' = parseQConversationMetadata(QHistoryOf(in))
  /\ op' = "qchat.parseQConversationMetadata"
  /\ pc' = "done"
  /\ io' = <<"db">>

ParseQConversationMetadataInline ==
  /\ Ready
  /\ \E in \in QHistories :
       /\ arg' = in
       /\ out' = parseQConversationMetadataInline(QHistoryOf(in))
  /\ op' = "qchat.parseQConversationMetadata.inline"
  /\ pc' = "done"
  /\ io' = <<"db">>

TuiParseQConversation ==
  /\ Ready
  /\ \E in \in QHistories :
       /\ arg' = in
       /\ out' = parseQConversation(QHistoryOf(in))
  /\ op' = "tui.parseQConversation"
  /\ pc' = "done"
  /\ io' = <<"db">>

\* the content of the turns of an input, shape forgotten
QContentOf(in) == [i \in 1..Len(in) |-> in[i].content]

\* C6: every Q Chat turn parser accepts both turn shapes, and the same
\* content yields the same messageCount and firstMessagePreview whether its
\* turns are 2-element arrays or {user, assistant} objects.
C6_BothTurnShapes ==
  op \in QParseOps =>
    /\ out = QParse(op, ShapedHistory(QContentOf(arg), "array"))
    /\ out = QParse(op, ShapedHistory(QContentOf(arg), "named"))

(***************************************************************************)
(* Sessions as the server returns them and as pull writes them.            *)
(***************************************************************************)
\* a transcript entry without a cwd field (the summary line of a transcript)
SummaryEntry == [type |-> "summary", summary |-> "s"]

\* message.cwd, undefined when the entry has no such field
Cwd(m) == IF "cwd" \in DOMAIN m THEN m.cwd ELSE None

\* a line of the text of a Gemini part: either the bootstrap line
\* "I'm currently working in the directory: <body>" or any other line
CtxLine(dir) == [ctx |-> TRUE, body |-> dir]
PlainLine == [ctx |-> FALSE, body |-> <<"h", "i">>]

TextPart(t) == [text |-> t]
FunctionCallPart == [functionCall |-> "f"]
FunctionResponsePart == [functionResponse |-> "r"]

GeminiTexts == {<<CtxLine(ProjectA)>>, <<PlainLine, CtxLine(ProjectA), PlainLine>>, <<PlainLine>>}

GeminiMessage ==
  {[role |-> "user", parts |-> <<TextPart(t)>>] : t \in GeminiTexts}
    \cup {[role |-> "user", parts |-> <<TextPart(<<CtxLine(ProjectA)>>), TextPart(<<PlainLine>>)>>],
          [role |-> "model", parts |-> <<TextPart(<<PlainLine>>)>>],
          [role |-> "model", parts |-> <<FunctionCallPart>>],
          [role |-> "user", parts |-> <<FunctionResponsePart>>]}

\* the content of a native checkpoint file: a JSON array of messages
GeminiCheckpoints == SeqsUpTo(GeminiMessage, MaxMsgs)

\* message.role and message.parts, undefined when the message has no such field
Role(msg) == IF "role" \in DOMAIN msg THEN msg.role ELSE None
Parts(msg) == IF "parts" \in DOMAIN msg THEN msg.parts ELSE <<>>

\* msg.parts?.[0]?.functionResponse
HasFunctionResponse(msg) ==
  Len(Parts(msg)) > 0 /\ "functionResponse" \in DOMAIN Parts(msg)[1]

\* message.parts?.[0]?.text (truthy)
HasText(msg) ==
  Len(Parts(msg)) > 0 /\ "text" \in DOMAIN Parts(msg)[1] /\ Parts(msg)[1].text # <<>>

filterActualMessages(messages) ==
  SelectSeq(messages, LAMBDA msg : ~(Role(msg) = "user" /\ HasFunctionResponse(msg)))

\* GeminiCliProvider.parseSession of a checkpoint that holds an array
geminiParseSession(data) ==
  LET actualMessages == filterActualMessages(data)
  IN  [messages |-> actualMessages, title |-> "Gemini CLI Session <date>",
       platform |-> "gemini-cli", messageCount |-> Len(actualMessages)]

\* index of the first line /I'm currently working in the directory: [^\n]+/
\* matches, 0 when there is none
FirstCtx(text) ==
  LET hits == {i \in 1..Len(text) : text[i].ctx /\ Len(text[i].body) > 0}
  IN  IF hits = {} THEN 0 ELSE CHOOSE i \in hits : \A j \in hits : i <= j

\* text.replace(/I'm currently working in the directory: [^\n]+/, ... targetDir)
ReplaceCtx(text, targetDir) ==
  IF FirstCtx(text) = 0 THEN text
  ELSE [text EXCEPT ![FirstCtx(text)] = CtxLine(targetDir)]

translateGeminiSessionPaths(messages, targetDir) ==
  [index \in 1..Len(messages) |->
     LET message == messages[index]
     IN  IF index = 1 /\ Role(message) = "user" /\ HasText(message)
         THEN [message EXCEPT !.parts =
                 <<[message.parts[1] EXCEPT !.text = ReplaceCtx(message.parts[1].text, targetDir)]>>]
         ELSE message]

translateSessionPaths(messages, targetDir) ==
  [i \in 1..Len(messages) |->
     IF Cwd(messages[i]) # None THEN [messages[i] EXCEPT !.cwd = targetDir]
     ELSE messages[i]]

\* path.split('/').pop()
PathBasename(path) ==
  LET slashes == {i \in 1..Len(path) : path[i] = "/"}
      last == IF slashes = {} THEN 0 ELSE CHOOSE i \in slashes : \A j \in slashes : j <= i
  IN  SubSeq(path, last + 1, Len(path))

\* the decision of a context validation before it may prompt
ContextDecision(originalCwd, targetDir) ==
  IF originalCwd # None /\ originalCwd # targetDir
  THEN IF PathBasename(originalCwd) = PathBasename(targetDir) THEN "proceed" ELSE "prompt"
  ELSE "proceed"

validateSessionContext_NeverPrompt(messages, targetDir) == "proceed"

validateSessionContext(messages, targetDir) ==
  IF Len(messages) = 0 THEN "proceed"
  ELSE ContextDecision(Cwd(messages[1]), targetDir)

\* the directory the first message of a Gemini session names, null if none
GeminiOriginalCwd(messages) ==
  IF Len(messages) > 0 /\ Role(messages[1]) = "user" /\ HasText(messages[1])
     /\ FirstCtx(messages[1].parts[1].text) # 0
  THEN messages[1].parts[1].text[FirstCtx(messages[1].parts[1].text)].body
  ELSE None

validateGeminiSessionContext(messages, targetDir) ==
  IF Len(messages) = 0 THEN "proceed"
  ELSE ContextDecision(GeminiOriginalCwd(messages), targetDir)

\* answer.toLowerCase() === 'y' || answer.toLowerCase() === 'yes'
PullConfirms(answer) == Confirms([i \in 1..Len(answer) |-> ToLower(answer[i])])

(***************************************************************************)
(* The pull command.                                                       *)
(***************************************************************************)
\* what a command leaves behind when its process ends
NoWrite == [platform |-> None, target |-> <<>>, content |-> <<>>]
Finished(code, msg, written, prompted) ==
  [kind |-> "exit", code |-> code, msg |-> msg, written |-> written, prompted |-> prompted]

\* [options.claude, options.gemini, options.qchat].filter(Boolean).length
PlatformFlags == [claude : BOOLEAN, gemini : BOOLEAN, qchat : BOOLEAN]
FlagCount(options) ==
  (IF options.claude THEN 1 ELSE 0) + (IF options.gemini THEN 1 ELSE 0)
    + (IF options.qchat THEN 1 ELSE 0)

\* commander stores --no-validate-cwd as options.validateCwd; the handlers
\* read options.noValidateCwd, a key the options object never has
NoValidateCwd(options) == FALSE

\* the data of a session response: a string of line-delimited JSON, an
\* array of messages, a single object or nothing
StringData(lines) == [t |-> "string", v |-> lines]
ArrayData(messages) == [t |-> "array", v |-> messages]
ObjectData(value) == [t |-> "object", v |-> value]
NoData == [t |-> None, v |-> <<>>]

QConversation(history) == [conversation_id |-> "c1", history |-> history]
QConversations ==
  {QConversation(<<Shaped([user |-> PromptMessage(<<"h", "i">>), assistant |-> ResponseMessage], s)>>) :
     s \in QShapes}

ClaudeTranscripts == SeqsUpTo({CorruptLine, JsonLine(UserEntry), JsonLine(SummaryEntry)}, 2)

SessionDatas ==
  {NoData}
    \cup {StringData(f) : f \in ClaudeTranscripts}
    \cup {ArrayData(<<UserEntry>>), ArrayData(<<SummaryEntry, UserEntry>>),
          ArrayData(<<UserEntry, ToolEntry>>), ArrayData(<<>>)}
    \cup {ArrayData(geminiParseSession(c).messages) : c \in GeminiCheckpoints}
    \cup {ObjectData(c) : c \in QConversations}

\* the outcome of apiRequest(`/sessions/${id}`): a response or a thrown
\* SessionBaseAPIError
SessionResponses ==
  {[status |-> 404, data |-> NoData]} \cup {[status |-> 200, data |-> d] : d \in SessionDatas}

TargetDirs == {ProjectA, ProjectB, ProjectC}

PullInputs ==
  [options : [claude : BOOLEAN, gemini : BOOLEAN, qchat : BOOLEAN, validateCwd : BOOLEAN],
   cwd : TargetDirs, response : SessionResponses]

\* !sessionResponse.data
FalsyData(data) == data.t = None \/ (data.t = "string" /\ data.v = <<>>)

\* sessionResponse.data?.conversation_id
HasConversationId(data) == data.t = "object" /\ "conversation_id" \in DOMAIN data.v

\* the messages pullCommand parses out of the data
PullMessages(platform, data) ==
  IF platform = "qchat" /\ HasConversationId(data) THEN Return(<<>>)
  ELSE IF data.t = "string"
       THEN IF \E i \in 1..Len(NonBlankLines(data.v)) : NonBlankLines(data.v)[i].kind = "corrupt"
            THEN Throw("Failed to parse session data")
            ELSE Return([i \in 1..Len(NonBlankLines(data.v)) |-> NonBlankLines(data.v)[i].val])
       ELSE IF data.t = "array" THEN Return(data.v)
       ELSE Return(<<data.v>>)

\* targetDir.replace(/\//g, '-')
EncodePath(path) == [i \in 1..Len(path) |-> IF path[i] = "/" THEN "-" ELSE path[i]]

\* pullForClaudeCode after the validation: translate and write the transcript
WriteClaude(messages, targetDir) ==
  [platform |-> "claude", target |-> EncodePath(targetDir),
   content |-> [i \in 1..Len(messages) |-> JsonLine(translateSessionPaths(messages, targetDir)[i])]]

\* pullForGeminiCLI after the validation: translate and write the checkpoint
WriteGemini(messages, targetDir) ==
  [platform |-> "gemini", target |-> targetDir,
   content |-> translateGeminiSessionPaths(messages, targetDir)]

\* message.type === role || message.message?.role === role
IsRole(message, role) ==
  \/ "type" \in DOMAIN message /\ message.type = role
  \/ "message" \in DOMAIN message /\ message.message.role = role

\* message.message?.content || message.content || ""
MessageContent(message) ==
  IF "message" \in DOMAIN message THEN message.message.content
  ELSE IF "content" \in DOMAIN message THEN message.content
  ELSE Str(<<>>)

ConvertedUser(content, targetDir) ==
  [kind |-> "Prompt", prompt |-> content, current_working_directory |-> targetDir]
ConvertedToolResults(targetDir) ==
  [kind |-> "ToolUseResults", current_working_directory |-> targetDir]
ConvertedResponse(content) == [kind |-> "Response", content |-> content]

NoTurn == [user |-> NullMessage, assistant |-> NullMessage]
CompleteTurn(turn) == Truthy(turn.user) /\ Truthy(turn.assistant)

\* the loop of convertMessagesToQChat over the messages
RECURSIVE ConvertLoop(_, _, _, _, _)
ConvertLoop(messages, i, history, currentTurn, targetDir) ==
  IF i > Len(messages)
  THEN IF CompleteTurn(currentTurn) THEN Append(history, ArrayTurn(currentTurn)) ELSE history
  ELSE LET message == messages[i]
           flushed == IF CompleteTurn(currentTurn)
                      THEN [history |-> Append(history, ArrayTurn(currentTurn)), turn |-> NoTurn]
                      ELSE [history |-> history, turn |-> currentTurn]
       IN  IF IsRole(message, "user")
           THEN ConvertLoop(messages, i + 1, flushed.history,
                            [flushed.turn EXCEPT !.user = ConvertedUser(MessageContent(message), targetDir)],
                            targetDir)
           ELSE IF IsRole(message, "assistant")
           THEN ConvertLoop(messages, i + 1, history,
                            [currentTurn EXCEPT !.assistant = ConvertedResponse(MessageContent(message))],
                            targetDir)
           ELSE IF IsRole(message, "tool")
           THEN ConvertLoop(messages, i + 1, flushed.history,
                            [flushed.turn EXCEPT !.user = ConvertedToolResults(targetDir)],
                            targetDir)
           ELSE ConvertLoop(messages, i + 1, history, currentTurn, targetDir)

convertMessagesToQChat(messages, targetDir) ==
  QConversation(ConvertLoop(messages, 1, <<>>, NoTurn, targetDir))

Succeeded(written, prompted) == Finished(0, "Session pulled successfully!", written, prompted)
Failure(msg) == Finished(1, msg, NoWrite, FALSE)

\* a step of a command: where it stands, what it shows and the I/O it did
Step(p, o, i) == [pc |-> p, out |-> o, io |-> i]

\* pullForQChat: no directory validation; raw Q Chat data is written as it
\* is, anything else is converted
pullForQChat(messages, data, targetDir) ==
  LET lines == NonBlankLines(data.v)
  IN  IF data.t = "string" /\ Len(lines) # 1
      THEN Step("done", Failure("Failed to parse Q Chat session data"), <<"net">>)
      ELSE LET parsedData == IF data.t = "string" THEN lines[1].val ELSE data.v
               raw == data.t # "array" /\ "conversation_id" \in DOMAIN parsedData
               qchatConversation == IF raw THEN parsedData
                                    ELSE convertMessagesToQChat(messages, targetDir)
           IN  Step("done",
                    Succeeded([platform |-> "qchat", target |-> targetDir,
                               content |-> qchatConversation], FALSE),
                    <<"net", "fs">>)

PullPlatform(options) ==
  IF options.gemini THEN "gemini" ELSE IF options.qchat THEN "qchat" ELSE "claude"

\* the validation of the platform a pull is for ("proceed" or "prompt")
PullValidation(platform, messages, options, targetDir) ==
  IF NoValidateCwd(options) THEN "proceed"
  ELSE IF platform = "claude" THEN validateSessionContext(messages, targetDir)
  ELSE validateGeminiSessionContext(messages, targetDir)

PullWritten(platform, messages, targetDir) ==
  IF platform = "claude" THEN WriteClaude(messages, targetDir)
  ELSE WriteGemini(messages, targetDir)

\* pullCommand up to its end or to the prompt of the context validation
pullCommand(in) ==
  LET platform == PullPlatform(in.options)
      data == in.response.data
      parsed == PullMessages(platform, data)
  IN  IF FlagCount(in.options) = 0
      THEN Step("done", Failure("Error: Must specify a platform flag"), <<>>)
      ELSE IF FlagCount(in.options) > 1
      THEN Step("done", Failure("Error: Can only specify one platform flag at a time"), <<>>)
      ELSE IF in.response.status = 404
      THEN Step("done", Failure("Session not found. Please check the session ID."), <<"net">>)
      ELSE IF FalsyData(data)
      THEN Step("done", Failure("Invalid session data received"), <<"net">>)
      ELSE IF parsed.kind = "throw"
      THEN Step("done", Failure(parsed.error), <<"net">>)
      ELSE IF ~(platform = "qchat" /\ HasConversationId(data)) /\ Len(parsed.value) = 0
      THEN Step("done", Failure("Session contains no messages"), <<"net">>)
      ELSE IF platform = "qchat"
      THEN pullForQChat(parsed.value, data, in.cwd)
      ELSE IF PullValidation(platform, parsed.value, in.options, in.cwd) = "prompt"
      THEN Step("confirm",
                [kind |-> "prompt", msg |-> "Continue anyway? [y/N]: ",
                 written |-> NoWrite, prompted |-> TRUE],
                <<"net", "prompt">>)
      ELSE Step("done", Succeeded(PullWritten(platform, parsed.value, in.cwd), FALSE),
                <<"net", "fs">>)

PullCommand ==
  /\ Ready
  /\ \E in \in PullInputs :
       /\ arg' = in
       /\ pc' = pullCommand(in).pc
       /\ out' = pullCommand(in).out
       /\ io' = pullCommand(in).io
  /\ op' = "pull"

\* the user answers the prompt of the context validation; the pull then
\* writes the session or is cancelled
PullAnswer ==
  /\ pc = "confirm"
  /\ op = "pull"
  /\ \E answer \in Answers :
       LET platform == PullPlatform(arg.options)
           messages == PullMessages(platform, arg.response.data).value
       IN  IF PullConfirms(answer)
           THEN /\ out' = [answer |-> answer]
                            @@ Succeeded(PullWritten(platform, messages, arg.cwd), TRUE)
                /\ io' = io \o <<"fs">>
           ELSE /\ out' = [answer |-> answer] @@ Finished(0, "Pull cancelled", NoWrite, TRUE)
                /\ io' = io
  /\ pc' = "done"
  /\ UNCHANGED <<op, arg>>

\* the last segment of a path: its longest suffix without a separator
LastSegment(path) ==
  CHOOSE s \in {SubSeq(path, i, Len(path)) : i \in 1..(Len(path) + 1)} :
    /\ \A k \in 1..Len(s) : s[k] # "/"
    /\ Len(s) = Len(path) \/ path[Len(path) - Len(s)] = "/"

\* the messages of the session a pull fetched, empty when there are none
PulledMessages ==
  LET parsed == PullMessages(PullPlatform(arg.options), arg.response.data)
  IN  IF FlagCount(arg.options) = 1 /\ arg.response.status = 200
         /\ ~FalsyData(arg.response.data) /\ parsed.kind = "return"
      THEN parsed.value ELSE <<>>

\* the directory a pulled session was recorded in: the cwd of the first
\* transcript entry, or the directory the bootstrap text of the first Gemini
\* message names
OriginalDirectory ==
  IF PulledMessages = <<>> THEN None
  ELSE IF PullPlatform(arg.options) = "gemini" THEN GeminiOriginalCwd(PulledMessages)
  ELSE Cwd(PulledMessages[1])

\* the session was recorded in another directory than the target
Relocated == OriginalDirectory # None /\ OriginalDirectory # arg.cwd

\* the session was written, and the user was asked (and agreed) before
WrittenAfterConfirmation ==
  /\ out.written # NoWrite
  /\ io = <<"net", "prompt", "fs">>
  /\ PullConfirms(out.answer)

\* what the directory-name check promises of a pull of the given platforms
DirectoryNameMatch(platforms) ==
  (op = "pull" /\ PullPlatform(arg.options) \in platforms /\ Relocated) =>
    IF LastSegment(OriginalDirectory) = LastSegment(arg.cwd)
    THEN /\ "prompt" \notin {io[i] : i \in 1..Len(io)}
         /\ out.code = 0 => (out.written # NoWrite /\ io = <<"net", "fs">>)
    ELSE out.written # NoWrite => WrittenAfterConfirmation

\* C4: on a pull, when the original directory of the session and the target
\* directory have the same last path segment the session is translated and
\* written without confirmation; when the last segments differ, it is
\* written only after the user confirmed.
C4_DirectoryNameMatch == DirectoryNameMatch({"claude", "gemini", "qchat"})

\* C4 as the code has it: the check guards the pulls for Claude Code and
\* Gemini CLI; a pull for Q Chat validates nothing.
C4_DirectoryNameMatchAmended ==
  /\ DirectoryNameMatch({"claude", "gemini"})
  /\ (op = "pull" /\ PullPlatform(arg.options) = "qchat") =>
       "prompt" \notin {io[i] : i \in 1..Len(io)}

\* a session recorded in /a/p was written into /b/q after the user agreed
C4_Witness ==
  /\ op = "pull"
  /\ pc = "done"
  /\ Relocated
  /\ LastSegment(OriginalDirectory) # LastSegment(arg.cwd)
  /\ WrittenAfterConfirmation

\* a Gemini message with the directories its bootstrap lines name left out
WithoutDirectories(message) ==
  IF "parts" \in DOMAIN message
  THEN [message EXCEPT !.parts =
          [k \in 1..Len(message.parts) |->
             IF "text" \in DOMAIN message.parts[k]
             THEN [message.parts[k] EXCEPT !.text =
                     [l \in 1..Len(message.parts[k].text) |->
                        IF message.parts[k].text[l].ctx THEN CtxLine(<<>>)
                        ELSE message.parts[k].text[l]]]
             ELSE message.parts[k]]]
  ELSE message

\* C5: a session parsed from a Gemini checkpoint, translated to a new
\* directory and written back as a checkpoint keeps its message count, its
\* sequence of roles and every field but the directory references.
C5_GeminiRoundTrip ==
  (op = "pull" /\ pc = "done" /\ out.written # NoWrite /\ out.written.platform = "gemini") =>
    /\ Len(out.written.content) = Len(PulledMessages)
    /\ \A i \in 1..Len(PulledMessages) :
         /\ Role(out.written.content[i]) = Role(PulledMessages[i])
         /\ WithoutDirectories(out.written.content[i]) = WithoutDirectories(PulledMessages[i])

(***************************************************************************)
(* The platform registry and the detection of the provider of a file.      *)
(* A session file has a name (does its basename start with "rollout-",     *)
(* what is its extension) and a text: lines of JSON, or one JSON document  *)
(* printed over several lines.                                             *)
(***************************************************************************)
RegisteredProviders == <<"claude-code", "gemini-cli", "qchat">>

\* the registry with the Codex adapter registered after the three others
Providers == RegisteredProviders \o <<"codex">>

CodexMeta == [type |-> "session_meta", payload |-> [id |-> "x1"]]
CodexMetaNoId == [type |-> "session_meta", payload |-> [cwd |-> ProjectA]]
CodexOld == [id |-> "x1", timestamp |-> "t1", instructions |-> None]
CodexItem == [type |-> "response_item", payload |-> [role |-> "user"]]
\* an entry with both the fields of a transcript entry and those of an old
\* Codex record
HybridEntry ==
  [sessionId |-> "s1", cwd |-> ProjectA, id |-> "x1", timestamp |-> "t1",
   instructions |-> None]

\* the text of a file: its lines, or the value of its document
LinesText(lines) == [layout |-> "lines", v |-> [t |-> "lines", v |-> lines]]
DocumentText(data) == [layout |-> "document", v |-> data]

OneTurn == <<NamedTurn([user |-> PromptMessage(<<"h", "i">>), assistant |-> ResponseMessage])>>
OneMessage == <<[role |-> "user", parts |-> <<TextPart(<<PlainLine>>)>>]>>
UnknownObject == [foo |-> "bar"]

DetectLines ==
  {CorruptLine, JsonLine(UserEntry), JsonLine(CodexMeta), JsonLine(CodexMetaNoId),
   JsonLine(CodexOld), JsonLine(CodexItem), JsonLine(HybridEntry)}

DetectTexts ==
  {LinesText(l) : l \in SeqsUpTo(DetectLines, MaxLines)}
    \cup {DocumentText(ArrayData(OneMessage)), DocumentText(ArrayData(<<>>)),
          DocumentText(ObjectData(QConversation(OneTurn))),
          DocumentText(ObjectData(UnknownObject))}

FileNames == [rollout : BOOLEAN, ext : {".jsonl", ".json"}]

SessionFiles == [name : FileNames, text : DetectTexts]

\* the lines parseJsonlFile splits the text into: the lines of a document
\* printed over several lines are not JSON values
FileLines(text) ==
  IF text.layout = "lines" THEN text.v.v ELSE <<CorruptLine, CorruptLine>>

\* BaseSessionProvider.parseJsonFile: JSON.parse of the whole text
parseJsonFile(text) ==
  IF text.layout = "document" THEN Return(text.v)
  ELSE IF Len(NonBlankLines(text.v.v)) = 1 /\ NonBlankLines(text.v.v)[1].kind = "json"
       THEN Return(ObjectData(NonBlankLines(text.v.v)[1].val))
       ELSE Throw([msg |-> "Invalid JSON in file"])

\* CodexProvider.validateFile
codexValidateFile(file) ==
  IF ~file.name.rollout \/ file.name.ext # ".jsonl" THEN Return(FALSE)
  ELSE LET lines == parseJsonlFile(FileLines(file.text))
       IN  IF lines.kind = "throw" THEN Return(FALSE)
           ELSE IF Len(lines.value) = 0 THEN Return(FALSE)
           ELSE LET firstRecord == lines.value[1]
                IN  Return(\/ /\ "type" \in DOMAIN firstRecord
                              /\ firstRecord.type = "session_meta"
                              /\ "payload" \in DOMAIN firstRecord
                              /\ "id" \in DOMAIN firstRecord.payload
                           \/ {"id", "timestamp", "instructions"} \subseteq DOMAIN firstRecord)

\* ClaudeCodeProvider.validateFile: the file parses as JSONL and its first
\* entry carries the session identity
claudeValidateFile(file) ==
  LET lines == parseJsonlFile(FileLines(file.text))
  IN  IF lines.kind = "throw" THEN lines
      ELSE Return("sessionId" \in DOMAIN lines.value[1])

\* GeminiCliProvider.validateFile: the file is a JSON array that holds a
\* message with a role and parts
geminiValidateFile(file) ==
  LET data == parseJsonFile(file.text)
  IN  IF data.kind = "throw" THEN data
      ELSE Return(/\ data.value.t = "array"
                  /\ \E i \in 1..Len(data.value.v) :
                       {"role", "parts"} \subseteq DOMAIN data.value.v[i])

\* QChatProvider.validateFile: the file is a JSON object with a
\* conversation_id and a history
qchatValidateFile(file) ==
  LET data == parseJsonFile(file.text)
  IN  IF data.kind = "throw" THEN data
      ELSE Return(/\ data.value.t = "object"
                  /\ {"conversation_id", "history"} \subseteq DOMAIN data.value.v)

\* provider.validateFile(filePath)
validateFile(provider, file) ==
  CASE provider = "claude-code" -> claudeValidateFile(file)
    [] provider = "gemini-cli" -> geminiValidateFile(file)
    [] provider = "qchat" -> qchatValidateFile(file)
    [] provider = "codex" -> codexValidateFile(file)

\* the loop of PlatformRegistry.detectProvider: a validator that throws is
\* treated as one that does not accept
RECURSIVE DetectLoop(_, _)
DetectLoop(file, i) ==
  IF i > Len(Providers) THEN None
  ELSE LET isValid == validateFile(Providers[i], file)
       IN  IF isValid.kind = "throw" THEN DetectLoop(file, i + 1)
           ELSE IF isValid.value THEN Providers[i]
           ELSE DetectLoop(file, i + 1)

\* a detection that does not probe the first registered provider
detectProvider_SkipFirst(file) == DetectLoop(file, 2)

\* PlatformRegistry.detectProvider
detectProvider(file) == DetectLoop(file, 1)

DetectProvider ==
  /\ Ready
  /\ \E file \in SessionFiles :
       /\ arg' = file
       /\ out' = [provider |-> detectProvider(file)]
  /\ op' = "detectProvider"
  /\ pc' = "done"
  /\ io' = <<"fs">>

\* a valid file of each platform
ValidFileOf(provider) ==
  CASE provider = "claude-code" ->
         [name |-> [rollout |-> FALSE, ext |-> ".jsonl"],
          text |-> LinesText(<<JsonLine(UserEntry), JsonLine(UserEntry)>>)]
    [] provider = "gemini-cli" ->
         [name |-> [rollout |-> FALSE, ext |-> ".json"],
          text |-> DocumentText(ArrayData(OneMessage))]
    [] provider = "qchat" ->
         [name |-> [rollout |-> FALSE, ext |-> ".json"],
          text |-> DocumentText(ObjectData(QConversation(OneTurn)))]
    [] provider = "codex" ->
         [name |-> [rollout |-> TRUE, ext |-> ".jsonl"],
          text |-> LinesText(<<JsonLine(CodexMeta), JsonLine(CodexItem)>>)]

\* texts that have the shape of no platform
ForeignTexts ==
  {DocumentText(ObjectData(UnknownObject)), DocumentText(ArrayData(<<>>)),
   LinesText(<<>>), LinesText(<<CorruptLine>>), LinesText(<<JsonLine(CodexItem)>>),
   LinesText(<<JsonLine(CodexMetaNoId), JsonLine(UserEntry)>>)}

\* the providers whose validator returns true for the file
Accepting(file) ==
  {i \in 1..Len(Providers) : validateFile(Providers[i], file) = Return(TRUE)}

validatePlatformOptions_AtMostTwo(options) ==
  IF FlagCount(options) > 2
  THEN Throw([msg |-> "Can only specify one platform flag at a time"])
  ELSE Return(TRUE)

\* PlatformRegistry.validatePlatformOptions
validatePlatformOptions(options) ==
  IF FlagCount(options) > 1
  THEN Throw([msg |-> "Can only specify one platform flag at a time"])
  ELSE Return(TRUE)

\* PlatformRegistry.getProviderFromOptions
getProviderFromOptions(options) ==
  IF options.claude THEN "claude-code"
  ELSE IF options.gemini THEN "gemini-cli"
  ELSE IF options.qchat THEN "qchat"
  ELSE None

\* no file path on the command line
NoFileArg == [name |-> [rollout |-> FALSE, ext |-> None], text |-> LinesText(<<>>)]

PushFiles ==
  {NoFileArg}
    \cup {ValidFileOf(Providers[i]) : i \in 1..Len(Providers)}
    \cup {[name |-> [rollout |-> FALSE, ext |-> ".json"],
           text |-> DocumentText(ObjectData(UnknownObject))],
          [name |-> [rollout |-> FALSE, ext |-> ".jsonl"],
           text |-> LinesText(<<CorruptLine>>)]}

\* the overrides of the caller: --title, --summary and --tags are texts, the
\* empty text standing for an option that is not given (both are falsy
\* where the options are read), --private is a flag
PayloadOverrides ==
  [title : {"", "T"}, summary : {"", "U"},
   tags : {<<>>, <<"x", ",", " ", "y">>}, private : BOOLEAN]
NoOverrides == [title |-> "", summary |-> "", tags |-> <<>>, private |-> FALSE]
AllOverrides ==
  [title |-> "T", summary |-> "U", tags |-> <<"x", ",", " ", "y">>, private |-> TRUE]

PushOptions == [claude : BOOLEAN, gemini : BOOLEAN, qchat : BOOLEAN, force : BOOLEAN]

FreshDir == <<[name |-> "checkpoint.json", mtime |-> Now, statOk |-> TRUE]>>
StaleDir == <<[name |-> "checkpoint.json", mtime |-> Now - 600001, statOk |-> TRUE]>>

\* what a push is given: its arguments, whether the storage root of the
\* platform exists, whether the current directory has a session (Claude
\* Code, Q Chat), the Gemini hash directory, the terminal, the answer typed
\* at a prompt and the outcome of the upload
PushInputs ==
  [file : PushFiles, options : PushOptions, overrides : {NoOverrides, AllOverrides},
   available : BOOLEAN, found : BOOLEAN,
   dir : {NoDir, FreshDir, StaleDir}, tty : BOOLEAN, input : {<<"y">>, <<"n">>},
   upload : {"ok", "error"}]

Field(r, f, default) == IF f \in DOMAIN r THEN r[f] ELSE default

\* QChatProvider.extractTurnMessages
extractTurnMessages(turn) ==
  IF turn.shape = "array" /\ Len(turn.items) >= 2
  THEN [userMessage |-> turn.items[1], assistantMessage |-> turn.items[2]]
  ELSE IF turn.shape = "named" /\ Truthy(turn.user) /\ Truthy(turn.assistant)
  THEN [userMessage |-> turn.user, assistantMessage |-> turn.assistant]
  ELSE [userMessage |-> NullMessage, assistantMessage |-> NullMessage]

\* the messages one turn adds in QChatProvider.convertQChatToMessages
TurnMessages(turn) ==
  LET m == extractTurnMessages(turn)
      user == IF extractQChatPromptText(m.userMessage) # <<>>
              THEN <<[type |-> "user", content |-> m.userMessage.prompt]>> ELSE <<>>
      tool == IF m.userMessage.kind = "ToolUseResults"
              THEN <<[type |-> "tool", content |-> <<>>]>> ELSE <<>>
      assistant == IF Field(m.assistantMessage, "content", <<>>) # <<>>
                   THEN <<[type |-> "assistant", content |-> m.assistantMessage.content]>>
                   ELSE <<>>
  IN  IF ~Truthy(m.userMessage) \/ ~Truthy(m.assistantMessage) THEN <<>>
      ELSE user \o tool \o assistant

RECURSIVE QMessagesLoop(_, _)
QMessagesLoop(history, i) ==
  IF i > Len(history) THEN <<>>
  ELSE TurnMessages(history[i]) \o QMessagesLoop(history, i + 1)

\* QChatProvider.convertQChatToMessages
convertQChatToMessages(data) == QMessagesLoop(Field(data, "history", <<>>), 1)

\* QChatProvider.parseSession: the raw data with the metadata on top
qchatParseSession(data) ==
  [platform |-> "qchat",
   title |-> Field(data, "title", "Q Chat Session <date>"),
   messageCount |-> Len(Field(data, "history", <<>>)) * 2,
   modelName |-> Field(data, "model", "unknown"),
   messages |-> convertQChatToMessages(data)] @@ data

\* CodexProvider.parseSession
codexParseSession(file) ==
  LET lines == parseJsonlFile(FileLines(file.text))
  IN  IF lines.kind = "throw" THEN lines
      ELSE LET firstRecord == lines.value[1]
               meta == Field(firstRecord, "type", None) = "session_meta"
                         /\ "payload" \in DOMAIN firstRecord
           IN  Return([messages |-> lines.value,
                       platform |-> "codex",
                       sessionId |-> IF meta THEN Field(firstRecord.payload, "id", None)
                                     ELSE Field(firstRecord, "id", "rollout-file"),
                       cwd |-> IF meta THEN Field(firstRecord.payload, "cwd", <<>>) ELSE <<>>,
                       messageCount |-> Len(lines.value)])

\* provider.parseSession(filePath)
parseSession(provider, file) ==
  LET data == parseJsonFile(file.text)
  IN  CASE provider = "claude-code" -> claudeParseSession(FileLines(file.text))
        [] provider = "codex" -> codexParseSession(file)
        [] provider = "gemini-cli" ->
             IF data.kind = "throw" THEN data
             ELSE IF data.value.t # "array"
             THEN Throw([msg |-> "Invalid Gemini CLI session format"])
             ELSE Return(geminiParseSession(data.value.v))
        [] provider = "qchat" ->
             IF data.kind = "throw" THEN data
             ELSE Return(qchatParseSession(IF data.value.t = "object" THEN data.value.v
                                           ELSE <<>>))

\* part.text || part.functionCall || part.functionResponse
PartTruthy(part) ==
  \/ Field(part, "text", <<>>) # <<>>
  \/ "functionCall" \in DOMAIN part
  \/ "functionResponse" \in DOMAIN part

\* parseFileContent: a .jsonl file is a Claude Code transcript, any other
\* file is JSON whose structure tells the platform
parseFileContent(file) ==
  LET lines == NonBlankLines(FileLines(file.text))
      entries == [i \in 1..Len(lines) |-> lines[i].val]
      parsed == parseJsonFile(file.text)
  IN  IF file.name.ext = ".jsonl"
      THEN IF \E i \in 1..Len(lines) : lines[i].kind = "corrupt"
           THEN Throw([msg |-> "Invalid JSONL"])
           ELSE Return([messages |-> entries,
                        title |-> "JSONL Import <date>",
                        platform |-> "claude-code",
                        sessionId |-> IF Len(entries) = 0 THEN None
                                      ELSE Field(entries[1], "sessionId", None),
                        cwd |-> IF Len(entries) = 0 THEN <<>>
                                ELSE Field(entries[1], "cwd", <<>>)])
      ELSE IF parsed.kind = "throw" THEN Throw([msg |-> "Invalid JSON"])
      ELSE IF /\ parsed.value.t = "array"
              /\ \E i \in 1..Len(parsed.value.v) :
                   LET msg == parsed.value.v[i]
                   IN  /\ Role(msg) \in {"user", "model"}
                       /\ \E k \in 1..Len(Parts(msg)) : PartTruthy(Parts(msg)[k])
      THEN Return([messages |-> parsed.value.v,
                   title |-> "Gemini CLI Session <date>",
                   platform |-> "gemini-cli"])
      ELSE IF /\ parsed.value.t = "object"
              /\ {"conversation_id", "history"} \subseteq DOMAIN parsed.value.v
      THEN Return([platform |-> "qchat",
                   title |-> Field(parsed.value.v, "title", "Q Chat Session <date>")]
                    @@ parsed.value.v)
      ELSE Return(IF parsed.value.t = "object" THEN parsed.value.v ELSE <<>>)

\* tags.split(',')
RECURSIVE SplitComma(_)
SplitComma(s) ==
  LET commas == {i \in 1..Len(s) : s[i] = ","}
  IN  IF commas = {} THEN <<s>>
      ELSE LET i == CHOOSE c \in commas : \A d \in commas : c <= d
           IN  <<SubSeq(s, 1, i - 1)>> \o SplitComma(SubSeq(s, i + 1, Len(s)))

\* options.tags.split(',').map(t => t.trim())
SplitTags(s) == [i \in 1..Len(SplitComma(s)) |-> Trim(SplitComma(s)[i])]

\* the metadata every branch of every payload builder writes
PayloadMetadata(sessionData, options) ==
  [isPrivate |-> options.private,
   title |-> IF options.title # "" THEN options.title
             ELSE Field(sessionData, "title", "Untitled Session"),
   summary |-> IF options.summary # "" THEN options.summary
               ELSE Field(sessionData, "summary", ""),
   tags |-> IF options.tags # <<>> THEN SplitTags(options.tags)
            ELSE Field(sessionData, "tags", <<>>)]

\* the messages-based branch of buildSessionPayload
MessagesPayload(sessionData, platform, options) ==
  PayloadMetadata(sessionData, options) @@
  [messages |-> Field(sessionData, "messages", <<>>),
   tokenCount |-> Field(sessionData, "tokenCount", 0),
   messageCount |-> Len(Field(sessionData, "messages", <<>>)),
   modelName |-> Field(sessionData, "modelName", "unknown"),
   platform |-> platform,
   sessionId |-> Field(sessionData, "sessionId", None),
   cwd |-> Field(sessionData, "cwd", <<>>)]

\* the branch of buildSessionPayload that keeps the raw Q Chat data
RawPayload(sessionData, options) ==
  PayloadMetadata(sessionData, options) @@
  [messageCount |-> Len(Field(sessionData, "history", <<>>)),
   modelName |-> Field(sessionData, "model", "unknown")] @@ sessionData

\* buildSessionPayload of pushCommand
buildSessionPayload(sessionData, options) ==
  IF Field(sessionData, "platform", None) = "qchat" THEN RawPayload(sessionData, options)
  ELSE MessagesPayload(sessionData,
                       IF Field(sessionData, "platform", None) = None THEN "cli"
                       ELSE sessionData.platform,
                       options)

\* buildSessionPayload of pushCommandDetect
buildSessionPayloadDetect(sessionData, options) ==
  IF Field(sessionData, "platform", None) = "q-chat" THEN RawPayload(sessionData, options)
  ELSE MessagesPayload(sessionData, Field(sessionData, "platform", None), options)

\* the payload uploadCommand builds: always the messages-based one
uploadPayload(sessionData, options) ==
  MessagesPayload(sessionData,
                  IF Field(sessionData, "platform", None) = None THEN "qcli"
                  ELSE sessionData.platform,
                  options)

NoPayload == [platform |-> None]
PushExit(code, msg, payload) ==
  [kind |-> "exit", code |-> code, msg |-> msg, payload |-> payload]

\* the end of both push handlers: the session data is checked, the payload
\* built and uploaded
PushUpload(sessionData, payload, upload, reads) ==
  IF "messages" \notin DOMAIN sessionData /\ "history" \notin DOMAIN sessionData
  THEN Step("done",
            PushExit(1, "Session file must contain a messages array or history array",
                     NoPayload),
            reads)
  ELSE IF upload = "error"
  THEN Step("done", PushExit(1, "Push failed: upload", NoPayload), reads \o <<"net">>)
  ELSE Step("done", PushExit(0, "Session pushed successfully!", payload),
            reads \o <<"net">>)

\* provider.findMostRecentSession(process.cwd(), options): whether it throws,
\* whether it found a file, and the I/O it did
LocateSession(provider, in, inline) ==
  LET options == [given |-> TRUE, force |-> in.options.force]
      r == IF inline
           THEN findMostRecentSessionInline(in.dir, options, in.tty, in.tty, in.input)
           ELSE findMostRecentSession(in.dir, options, in.tty, in.tty, in.input)
  IN  IF provider = "gemini-cli"
      THEN [kind |-> r.kind,
            found |-> r.kind = "return" /\ r.value # None,
            io |-> IF r.prompted THEN <<"fs", "prompt">> ELSE <<"fs">>]
      ELSE IF provider = "qchat"
      THEN [kind |-> "return", found |-> in.found,
            io |-> IF in.found THEN <<"db", "fs">> ELSE <<"db">>]
      ELSE [kind |-> "return", found |-> in.found, io |-> <<"fs">>]

\* the session file a locator finds in the current directory
LocatedFile(provider) ==
  IF provider = "claude-code"
  THEN [name |-> [rollout |-> FALSE, ext |-> ".jsonl"],
        text |-> LinesText(<<JsonLine(UserEntry), JsonLine(ToolEntry)>>)]
  ELSE ValidFileOf(provider)

\* the branch of both push handlers that is given a platform flag
PushLocated(in, inline, detect) ==
  LET provider == getProviderFromOptions(in.options)
      located == LocateSession(provider, in, inline)
      sessionData == parseSession(provider, LocatedFile(provider))
  IN  IF provider = None
      THEN Step("done", PushExit(1, "Platform provider not found", NoPayload), <<>>)
      ELSE IF ~in.available
      THEN Step("done", PushExit(1, "is not available on this system", NoPayload),
                <<"fs">>)
      ELSE IF located.kind = "throw"
      THEN Step("done", PushExit(1, "Push failed: Checkpoint is old", NoPayload),
                <<"fs">> \o located.io)
      ELSE IF ~located.found
      THEN Step("done",
                IF provider = "gemini-cli" THEN PushExit(0, "", NoPayload)
                ELSE PushExit(1, "No session found for current directory", NoPayload),
                <<"fs">> \o located.io)
      ELSE IF sessionData.kind = "throw"
      THEN Step("done", PushExit(1, "Push failed: parse", NoPayload),
                <<"fs">> \o located.io \o <<"fs">>)
      ELSE PushUpload(sessionData.value,
                      IF detect THEN buildSessionPayloadDetect(sessionData.value, in.overrides)
                      ELSE buildSessionPayload(sessionData.value, in.overrides),
                      in.upload, <<"fs">> \o located.io \o <<"fs">>)

\* the push handler that parses a given file itself
pushCommand(in) ==
  LET platformFlags == FlagCount(in.options)
      sessionData == parseFileContent(in.file)
  IN  IF in.file # NoFileArg /\ platformFlags > 0
      THEN Step("done",
                PushExit(1, "Cannot specify both a file path and platform flags", NoPayload),
                <<>>)
      ELSE IF in.file = NoFileArg /\ platformFlags = 0
      THEN Step("done",
                PushExit(1, "Must specify either a file path or a platform flag", NoPayload),
                <<>>)
      ELSE IF validatePlatformOptions(in.options).kind = "throw"
      THEN Step("done",
                PushExit(1, "Push failed: Can only specify one platform flag at a time",
                         NoPayload),
                <<>>)
      ELSE IF platformFlags > 0 THEN PushLocated(in, TRUE, FALSE)
      ELSE IF sessionData.kind = "throw"
      THEN Step("done", PushExit(1, "Push failed: invalid file", NoPayload), <<"fs">>)
      ELSE PushUpload(sessionData.value, buildSessionPayload(sessionData.value, in.overrides),
                      in.upload, <<"fs">>)

\* the push handler that asks the registry for the provider of a given file
pushCommandDetect(in) ==
  LET platformFlags == FlagCount(in.options)
      detectedProvider == detectProvider(in.file)
      expectedProvider == getProviderFromOptions(in.options)
      sessionData == parseSession(detectedProvider, in.file)
  IN  IF in.file = NoFileArg /\ platformFlags = 0
      THEN Step("done",
                PushExit(1, "Must specify either a file path or a platform flag", NoPayload),
                <<>>)
      ELSE IF validatePlatformOptions(in.options).kind = "throw"
      THEN Step("done",
                PushExit(1, "Push failed: Can only specify one platform flag at a time",
                         NoPayload),
                <<>>)
      ELSE IF in.file = NoFileArg THEN PushLocated(in, FALSE, TRUE)
      ELSE IF detectedProvider = None
      THEN Step("done", PushExit(1, "Unsupported session file format", NoPayload), <<"fs">>)
      ELSE IF platformFlags > 0 /\ expectedProvider # None
                /\ detectedProvider # expectedProvider
      THEN Step("done", PushExit(1, "Platform mismatch", NoPayload), <<"fs">>)
      ELSE IF sessionData.kind = "throw"
      THEN Step("done", PushExit(1, "Push failed: parse", NoPayload), <<"fs", "fs">>)
      ELSE PushUpload(sessionData.value,
                      buildSessionPayloadDetect(sessionData.value, in.overrides),
                      in.upload, <<"fs", "fs">>)

PushCommand ==
  /\ Ready
  /\ \E in \in PushInputs :
       /\ arg' = in
       /\ pc' = pushCommand(in).pc
       /\ out' = pushCommand(in).out
       /\ io' = pushCommand(in).io
  /\ op' = "push"

PushCommandDetect ==
  /\ Ready
  /\ \E in \in PushInputs :
       /\ arg' = in
       /\ pc' = pushCommandDetect(in).pc
       /\ out' = pushCommandDetect(in).out
       /\ io' = pushCommandDetect(in).io
  /\ op' = "push.detect"

\* what ls is given: its options, the providers whose storage root exists,
\* the providers whose scan throws and the number of sessions a scan finds
LsInputs ==
  [options : [claude : BOOLEAN, gemini : BOOLEAN, qchat : BOOLEAN,
              path : BOOLEAN, global : BOOLEAN],
   available : SUBSET {Providers[i] : i \in 1..Len(Providers)},
   failing : {{}} \cup {{Providers[i]} : i \in 1..Len(Providers)},
   sessions : 0..1]

\* the storage a listing reads: the Q Chat database or the file system
ScanEvent(provider) == IF provider = "qchat" THEN "db" ELSE "fs"

\* provider.listSessions inside the try block of its caller
Listing(provider, in) ==
  [provider |-> provider,
   status |-> IF provider \in in.failing THEN "error"
              ELSE IF in.sessions = 0 THEN "none" ELSE "sessions"]

listSinglePlatform(provider, in) ==
  IF provider \notin in.available
  THEN Step("done", [kind |-> "exit", code |-> 0, msg |-> "", listed |-> <<>>], <<"fs">>)
  ELSE Step("done",
            [kind |-> "exit", code |-> 0, msg |-> "", listed |-> <<Listing(provider, in)>>],
            <<"fs", ScanEvent(provider)>>)

listAllPlatforms(in) ==
  LET availableProviders == SelectSeq(Providers, LAMBDA p : p \in in.available)
  IN  Step("done",
           [kind |-> "exit", code |-> 0, msg |-> "",
            listed |-> [i \in 1..Len(availableProviders) |->
                          Listing(availableProviders[i], in)]],
           [i \in 1..Len(Providers) |-> "fs"]
             \o [i \in 1..Len(availableProviders) |-> ScanEvent(availableProviders[i])])

\* the action of lsCommand
lsCommand(in) ==
  LET specificProvider == getProviderFromOptions(in.options)
  IN  IF in.options.path /\ in.options.global
      THEN Step("done",
                [kind |-> "exit", code |-> 1,
                 msg |-> "Error: Cannot specify both --path and --global options",
                 listed |-> <<>>],
                <<>>)
      ELSE IF validatePlatformOptions(in.options).kind = "throw"
      THEN Step("done",
                [kind |-> "exit", code |-> 1,
                 msg |-> "Error: Can only specify one platform flag at a time",
                 listed |-> <<>>],
                <<>>)
      ELSE IF specificProvider # None THEN listSinglePlatform(specificProvider, in)
      ELSE listAllPlatforms(in)

LsCommand ==
  /\ Ready
  /\ \E in \in LsInputs :
       /\ arg' = in
       /\ pc' = lsCommand(in).pc
       /\ out' = lsCommand(in).out
       /\ io' = lsCommand(in).io
  /\ op' = "ls"

FlagCommands == {"push", "push.detect", "pull", "ls"}

findMostRecentGeminiSession(dir) ==
  IF dir = NoDir THEN Located(None, FALSE)
  ELSE LET checkpoints == SelectSeq(dir, LAMBDA f : IsCheckpoint(f.name))
           mostRecentFile == MostRecentLoop(checkpoints, 1, NoFile, 0)
       IN  IF Len(checkpoints) = 0 \/ mostRecentFile = NoFile THEN Located(None, FALSE)
           ELSE Located(mostRecentFile.name, FALSE)

FindMostRecentGeminiSession ==
  /\ Ready
  /\ \E in \in LocatorInputs :
       /\ arg' = in
       /\ out' = findMostRecentGeminiSession(in.dir)
  /\ op' = "push.findMostRecentGeminiSession"
  /\ pc' = "done"
  /\ io' = <<"fs">>

AllLocatorOps == LocatorOps \cup {"push.findMostRecentGeminiSession"}

\* the locator's answer to a stale newest checkpoint: the file is returned
\* only under the force override or after an interactive yes, and null is
\* returned when the interactive user declines
StaleGate(ops) ==
  (/\ op \in ops
   /\ Readable(arg.dir) # {}
   /\ NewestAge(arg.dir) > tenMinutesInMs) =>
    /\ (out.kind = "return" /\ out.value # None) =>
         \/ Force(arg.options)
         \/ /\ arg.stdinTTY /\ arg.stdoutTTY
            /\ out.prompted
            /\ Confirms(NormalizeAnswer(arg.input))
    /\ (/\ ~Force(arg.options)
        /\ arg.stdinTTY /\ arg.stdoutTTY
        /\ ~Confirms(NormalizeAnswer(arg.input))) =>
         (out.kind = "return" /\ out.value = None)

\* C11: for a checkpoint older than 10 minutes no locator silently proceeds:
\* the stale file is returned only if the force override is set or an
\* interactive user answered yes, and null is returned when the user declines
C11_StaleNeverSilent == StaleGate(AllLocatorOps)

\* the messages of a written session file
WrittenMessages ==
  [i \in 1..Len(out.written.content) |->
     IF out.written.platform = "claude" THEN out.written.content[i].val
     ELSE out.written.content[i]]

\* every reference of the message to a working directory (its cwd field,
\* the directory lines of its text parts) names the given directory
RefersOnlyTo(m, dir) ==
  /\ "cwd" \in DOMAIN m => m.cwd = dir
  /\ \A k \in 1..Len(Parts(m)) :
       "text" \in DOMAIN Parts(m)[k] =>
         \A l \in 1..Len(Parts(m)[k].text) :
           Parts(m)[k].text[l].ctx => Parts(m)[k].text[l].body = dir

\* C12: in a session written by a pull for Claude Code or Gemini CLI every
\* message that carries a working-directory reference (a cwd field or a
\* directory line in a text part) names the target directory, whatever its
\* position in the session
C12_EveryReferenceRewritten ==
  (/\ op = "pull" /\ pc = "done"
   /\ out.written # NoWrite
   /\ out.written.platform \in {"claude", "gemini"}) =>
    \A i \in 1..Len(WrittenMessages) : RefersOnlyTo(WrittenMessages[i], arg.cwd)

(***************************************************************************)
(* The API client.  Every request goes through fetch, which wraps the      *)
(* network call in withRetry.  An attempt ends with a response of some     *)
(* HTTP status or with a network error (the call itself throws).           *)
(***************************************************************************)
maxRetries == 2
baseDelay == 100

Statuses == {200, 304, 399, 400, 404, 499, 500, 503}

AttemptOutcomes ==
  {[kind |-> "response", status |-> s] : s \in Statuses}
    \cup {[kind |-> "network", status |-> 0]}

\* response.ok
Ok(outcome) == outcome.kind = "response" /\ outcome.status >= 200 /\ outcome.status < 300

\* a retry that treats no error as a client error
IsClientError_Never(outcome) == FALSE

\* error instanceof SessionBaseAPIError && error.status
\*   && error.status >= 400 && error.status < 500
IsClientError(outcome) ==
  outcome.kind = "response" /\ outcome.status >= 400 /\ outcome.status < 500

\* a backoff that waits the base delay before every retry
RetryDelay_Constant(attempt) == baseDelay

\* baseDelay * Math.pow(2, attempt)
RetryDelay(attempt) == baseDelay * 2^attempt

\* the request in flight: the attempts made so far and the delays waited
Request(kind, attempt, outcomes, delays, status) ==
  [kind |-> kind, attempt |-> attempt, outcomes |-> outcomes, delays |-> delays,
   status |-> status]

\* one round of the loop of withRetry: the operation is attempted; it
\* returns, or its error is thrown on, or the loop waits and goes round
withRetry(request, outcome) ==
  LET outcomes == request.outcomes \o <<outcome>>
  IN  IF Ok(outcome)
      THEN Step("done",
                Request("return", request.attempt, outcomes, request.delays, outcome.status),
                <<"net">>)
      ELSE IF IsClientError(outcome)
      THEN Step("done",
                Request("throw", request.attempt, outcomes, request.delays, outcome.status),
                <<"net">>)
      ELSE IF request.attempt = maxRetries
      THEN Step("done",
                Request("throw", request.attempt, outcomes, request.delays, outcome.status),
                <<"net">>)
      ELSE Step("attempt",
                Request("running", request.attempt + 1, outcomes,
                        request.delays \o <<RetryDelay(request.attempt)>>, 0),
                <<"net">>)

\* SessionBaseClient.fetch up to the first attempt: a request that requires
\* authentication fails at once when there is no token
ClientFetch ==
  /\ Ready
  /\ \E requireAuth \in BOOLEAN, token \in {None, "token"} :
       /\ arg' = [requireAuth |-> requireAuth, token |-> token]
       /\ IF requireAuth /\ token = None
          THEN /\ pc' = "done"
               /\ out' = Request("throw", 0, <<>>, <<>>, 0)
          ELSE /\ pc' = "attempt"
               /\ out' = Request("running", 0, <<>>, <<>>, 0)
  /\ op' = "client.fetch"
  /\ io' = <<>>

\* one attempt of the request in flight
ClientAttempt ==
  /\ pc = "attempt"
  /\ op = "client.fetch"
  /\ \E outcome \in AttemptOutcomes :
       /\ pc' = withRetry(out, outcome).pc
       /\ out' = withRetry(out, outcome).out
       /\ io' = io \o withRetry(out, outcome).io
  /\ UNCHANGED <<op, arg>>

\* C13: an attempt that fails with an HTTP 4xx status is the last attempt
\* of its request: the request ends right there by throwing the error with
\* that status
C13_ClientErrorNotRetried ==
  op = "client.fetch" =>
    \A i \in 1..Len(out.outcomes) :
      (/\ out.outcomes[i].kind = "response"
       /\ out.outcomes[i].status >= 400
       /\ out.outcomes[i].status < 500) =>
        /\ i = Len(out.outcomes)
        /\ pc = "done"
        /\ out.kind = "throw"
        /\ out.status = out.outcomes[i].status

\* a request whose first attempt got a 404 has ended with that error after
\* one network call
C13_Witness ==
  /\ op = "client.fetch" /\ pc = "done"
  /\ out.outcomes = <<[kind |-> "response", status |-> 404]>>
  /\ out.kind = "throw" /\ out.status = 404
  /\ io = <<"net">>

\* C14: a request is attempted at most 3 times; the delay before the n-th
\* retry is 100 ms doubled n - 1 times (100, 200); after a third failed
\* attempt the error is thrown
C14_RetryBounded ==
  op = "client.fetch" =>
    /\ Len(out.outcomes) <= 3
    /\ Len(io) = Len(out.outcomes)
    /\ out.delays = SubSeq(<<100, 200>>, 1, Len(out.delays))
    /\ pc = "attempt" => Len(out.delays) = Len(out.outcomes)
    /\ (Len(out.outcomes) = 3 /\ ~Ok(out.outcomes[3])) =>
         /\ pc = "done"
         /\ out.kind = "throw"
         /\ out.delays = <<100, 200>>

\* a request that failed three times with non-4xx errors has waited 100 ms
\* and 200 ms and has thrown
C14_Witness ==
  /\ op = "client.fetch" /\ pc = "done"
  /\ out.outcomes = <<[kind |-> "response", status |-> 500],
                      [kind |-> "network", status |-> 0],
                      [kind |-> "response", status |-> 503]>>
  /\ out.delays = <<100, 200>>
  /\ out.kind = "throw"

(***************************************************************************)
(* The poll loop of the device-flow login (pollDeviceComplete).  The       *)
(* source holds two versions: one polls with fetch, the other through the  *)
(* API client.  A poll is answered pending or complete, fails with HTTP    *)
(* 400, fails with another status, or fails as a network error.            *)
(***************************************************************************)
maxAttempts == 120

PollOutcomes == {"pending", "complete", "status400", "status500", "network"}
PollVersions == {"login.poll.fetch", "login.poll.client"}
Intervals == {1, 5}                 \* deviceFlow.interval, in seconds

TimedOut == "Device authorization timed out"
Expired == "Device code expired or invalid"

\* a last attempt that is never recognised
LastAttempt_Never(attempt) == FALSE

\* attempt === maxAttempts - 1
LastAttempt(attempt) == attempt = maxAttempts - 1

\* the loop of pollDeviceComplete between two polls
Polling(kind, attempt, polls, waited, last, error) ==
  [kind |-> kind, attempt |-> attempt, polls |-> polls, waited |-> waited,
   last |-> last, error |-> error]

\* the loop goes on to the next attempt, or ends after the last one
ContinuePolling(s) ==
  IF s.attempt + 1 < maxAttempts
  THEN Step("poll", [s EXCEPT !.attempt = s.attempt + 1], <<"net">>)
  ELSE Step("done", [s EXCEPT !.kind = "throw", !.error = TimedOut], <<"net">>)

\* one round of the loop: wait for the interval, poll, act on the answer
pollDeviceComplete(version, interval, state, outcome) ==
  LET s == [state EXCEPT !.polls = state.polls + 1,
                         !.waited = state.waited + interval * 1000,
                         !.last = outcome]
      thrown(e) == Step("done", [s EXCEPT !.kind = "throw", !.error = e], <<"net">>)
  IN  IF outcome = "complete"
      THEN Step("done", [s EXCEPT !.kind = "return"], <<"net">>)
      ELSE IF outcome = "pending" THEN ContinuePolling(s)
      ELSE IF outcome = "status400" THEN thrown(Expired)
      ELSE IF version = "login.poll.fetch"
      THEN IF outcome = "network" THEN thrown(outcome) ELSE ContinuePolling(s)
      ELSE IF LastAttempt(s.attempt) THEN thrown(outcome) ELSE ContinuePolling(s)

PollDeviceComplete ==
  /\ Ready
  /\ \E version \in PollVersions, interval \in Intervals :
       /\ op' = version
       /\ arg' = [interval |-> interval]
  /\ pc' = "poll"
  /\ out' = Polling("running", 0, 0, 0, None, None)
  /\ io' = <<>>

PollAttempt ==
  /\ pc = "poll"
  /\ op \in PollVersions
  /\ \E outcome \in PollOutcomes :
       /\ pc' = pollDeviceComplete(op, arg.interval, out, outcome).pc
       /\ out' = pollDeviceComplete(op, arg.interval, out, outcome).out
       /\ io' = pollDeviceComplete(op, arg.interval, out, outcome).io
  /\ UNCHANGED <<op, arg>>

\* the loop polls at a fixed interval and at most maxAttempts times
PollLoopBounded ==
  /\ out.polls <= 120
  /\ out.waited = out.polls * arg.interval * 1000
  /\ pc = "poll" => out.polls = out.attempt /\ out.polls < 120

\* C15: the poll loop polls at a fixed interval and at most 120 times, and
\* when 120 polls have not completed the authorization it fails with the
\* timeout error
C15_PollLoopTimesOut ==
  op \in PollVersions =>
    /\ PollLoopBounded
    /\ (out.polls = 120 /\ out.last # "complete") =>
         /\ pc = "done"
         /\ out.kind = "throw"
         /\ out.error = TimedOut

\* C15 as the code has it: after 120 polls without completion the loop has
\* failed, with the timeout error when the last poll was answered pending
\* (in the fetch version also when it failed with a status other than 400),
\* with "Device code expired or invalid" when it failed with 400, and with
\* the error of the last poll otherwise
C15_PollLoopBoundedAmended ==
  op \in PollVersions =>
    /\ PollLoopBounded
    /\ (out.polls = 120 /\ out.last # "complete") =>
         /\ pc = "done"
         /\ out.kind = "throw"
         /\ out.error =
              IF out.last = "pending" THEN TimedOut
              ELSE IF out.last = "status400" THEN Expired
              ELSE IF op = "login.poll.fetch" /\ out.last = "status500" THEN TimedOut
              ELSE out.last

\* the client version has polled 120 times, the last poll failed with a
\* status other than 400, and the loop threw that error
C15_Witness ==
  /\ op = "login.poll.client" /\ pc = "done"
  /\ out.polls = 120
  /\ out.last = "status500"
  /\ out.kind = "throw" /\ out.error = "status500"

(***************************************************************************)
(* getAllSessions of the TUI session service: the three platform scans     *)
(* run in parallel and are collected with Promise.allSettled.              *)
(***************************************************************************)
TuiPlatforms == {"claude", "gemini", "qchat"}

\* what getAllSessions is given: the platforms whose scan rejects and the
\* number of sessions each scan finds
TuiInputs == [failing : SUBSET TuiPlatforms, sessions : [TuiPlatforms -> 0..1]]

\* the sessions the scan of a platform resolves to
ScannedSessions(platform, in) ==
  [i \in 1..in.sessions[platform] |-> [platform |-> platform, id |-> "s1"]]

\* a collection with Promise.all: one rejected scan rejects the whole
getAllSessions_All(in) ==
  IF in.failing # {} THEN Throw([msg |-> "scan failed"])
  ELSE Return([p \in TuiPlatforms |-> ScannedSessions(p, in)])

\* getAllSessions: the result of a platform is taken when its scan is
\* fulfilled and stays empty when it is rejected
getAllSessions(in) ==
  Return([p \in TuiPlatforms |->
            IF p \in in.failing THEN <<>> ELSE ScannedSessions(p, in)])

TuiGetAllSessions ==
  /\ Ready
  /\ \E in \in TuiInputs :
       /\ arg' = in
       /\ out' = getAllSessions(in)
  /\ op' = "tui.getAllSessions"
  /\ pc' = "done"
  /\ io' = <<"fs", "fs", "db">>

\* C16: a listing across all platforms is not aborted by a failing scan:
\* getAllSessions returns the sessions of every platform whose scan succeeds,
\* and ls without a platform flag lists every available provider, the
\* failing one as an error and every other one with what its scan found
C16_ScanFailureIsolated ==
  /\ op = "tui.getAllSessions" =>
       /\ out.kind = "return"
       /\ \A p \in TuiPlatforms \ arg.failing : out.value[p] = ScannedSessions(p, arg)
  /\ (/\ op = "ls"
      /\ FlagCount(arg.options) = 0
      /\ ~(arg.options.path /\ arg.options.global)) =>
       /\ out.code = 0
       /\ Len(out.listed) = Cardinality(arg.available)
       /\ \A p \in arg.available :
            \E i \in 1..Len(out.listed) :
              /\ out.listed[i].provider = p
              /\ out.listed[i].status =
                   IF p \in arg.failing THEN "error"
                   ELSE IF arg.sessions = 0 THEN "none" ELSE "sessions"

\* the Gemini scan failed and the Claude Code sessions are returned all
\* the same
C16_Witness ==
  /\ op = "tui.getAllSessions" /\ pc = "done"
  /\ arg.failing = {"gemini"}
  /\ out.kind = "return"
  /\ out.value["claude"] # <<>>
  /\ out.value["gemini"] = <<>>

(***************************************************************************)
(* The three payload builders on sessions that carry metadata of their     *)
(* own.                                                                    *)
(***************************************************************************)
PayloadBuilders == {"push", "push.detect", "upload"}

\* the metadata a session can carry (SessionData: title, summary, tags,
\* isPrivate are optional)
SessionMetadata ==
  {(IF t THEN [title |-> "S"] ELSE <<>>)
     @@ (IF u THEN [summary |-> "V"] ELSE <<>>)
     @@ (IF g THEN [tags |-> <<<<"a">>>>] ELSE <<>>)
     @@ (IF p = "absent" THEN <<>> ELSE [isPrivate |-> p = "true"]) :
     t \in BOOLEAN, u \in BOOLEAN, g \in BOOLEAN, p \in {"absent", "true", "false"}}

\* a session of messages, a Q Chat session as the adapter marks it and one
\* marked the older way
PayloadShapes ==
  {[messages |-> OneMessage, platform |-> "claude-code"],
   [platform |-> "qchat"] @@ QConversation(OneTurn),
   [platform |-> "q-chat"] @@ QConversation(OneTurn)}

PayloadSessions == {m @@ s : m \in SessionMetadata, s \in PayloadShapes}

BuildPayload(builder, sessionData, options) ==
  CASE builder = "push" -> buildSessionPayload(sessionData, options)
    [] builder = "push.detect" -> buildSessionPayloadDetect(sessionData, options)
    [] builder = "upload" -> uploadPayload(sessionData, options)

BuildSessionPayload ==
  /\ Ready
  /\ \E builder \in PayloadBuilders, sessionData \in PayloadSessions,
        options \in PayloadOverrides :
       /\ arg' = [builder |-> builder, sessionData |-> sessionData, options |-> options]
       /\ out' = [kind |-> "payload",
                  payload |-> BuildPayload(builder, sessionData, options)]
  /\ op' = "buildSessionPayload"
  /\ pc' = "done"
  /\ io' = <<>>

\* the value the precedence caller > session > default gives each of the
\* three texts
TextPrecedence ==
  /\ out.payload.title =
       IF arg.options.title # "" THEN arg.options.title
       ELSE IF "title" \in DOMAIN arg.sessionData THEN arg.sessionData.title
       ELSE "Untitled Session"
  /\ out.payload.summary =
       IF arg.options.summary # "" THEN arg.options.summary
       ELSE IF "summary" \in DOMAIN arg.sessionData THEN arg.sessionData.summary
       ELSE ""
  /\ out.payload.tags =
       IF arg.options.tags # <<>> THEN <<<<"x">>, <<"y">>>>
       ELSE IF "tags" \in DOMAIN arg.sessionData THEN arg.sessionData.tags
       ELSE <<>>

\* C17: in the payload of every builder, title, summary, tags and the
\* privacy flag are the value of the caller when the caller gives one,
\* otherwise the value the session carries when it carries one, otherwise
\* the default
C17_OverridePrecedence ==
  op = "buildSessionPayload" =>
    /\ TextPrecedence
    /\ out.payload.isPrivate =
         IF arg.options.private THEN TRUE
         ELSE IF "isPrivate" \in DOMAIN arg.sessionData THEN arg.sessionData.isPrivate
         ELSE FALSE

\* a push that uploads a Q Chat session: the one --qchat locates or the one
\* of a given Q Chat file
QChatPushed ==
  /\ op \in {"push", "push.detect"} /\ pc = "done"
  /\ out.code = 0
  /\ out.payload # NoPayload
  /\ \/ arg.file = NoFileArg /\ arg.options.qchat
     \/ arg.file = ValidFileOf("qchat")

\* the payload holds every native field of the conversation as it is
SpreadWholesale(payload, native) ==
  \A f \in DOMAIN native : f \in DOMAIN payload /\ payload[f] = native[f]

\* C18: the payload of a pushed Q Chat session holds every native field of
\* the conversation (conversation_id, history) unchanged next to the
\* metadata; it is never the flat payload of the messages branch, which has
\* a tokenCount and no history
C18_QChatSpreadWholesale ==
  QChatPushed =>
    /\ SpreadWholesale(out.payload, QConversation(OneTurn))
    /\ "tokenCount" \notin DOMAIN out.payload

(***************************************************************************)
(* The sessions the adapters produce.  The source holds two Q Chat         *)
(* adapters, both registered as 'qchat'; "qchat.older" names the older     *)
(* one.                                                                    *)
(***************************************************************************)
Adapters == {Providers[i] : i \in 1..Len(Providers)} \cup {"qchat.older"}

\* the readonly platform field of the adapter, the key it is registered
\* under
RegisteredPlatform(adapter) == IF adapter = "qchat.older" THEN "qchat" ELSE adapter

\* parseSession of the older QChatProvider
qchatParseSessionOlder(data) ==
  [platform |-> "q-chat",
   title |-> Field(data, "title", "Q Chat Session <date>"),
   messageCount |-> Len(Field(data, "history", <<>>)) * 2,
   modelName |-> Field(data, "model", "unknown")] @@ data

\* adapter.parseSession(filePath)
AdapterParse(adapter, file) ==
  LET data == parseJsonFile(file.text)
  IN  IF adapter # "qchat.older" THEN parseSession(adapter, file)
      ELSE IF data.kind = "throw" THEN data
      ELSE Return(qchatParseSessionOlder(IF data.value.t = "object" THEN data.value.v
                                         ELSE <<>>))

\* the entry a listing of the adapter pushes for a stored session; a session
\* that cannot be parsed is skipped
ListingEntries(adapter, file) ==
  LET parsed == AdapterParse(adapter, file)
      entry(platform, title) ==
        [id |-> "s1", platform |-> platform, messages |-> <<>>, title |-> title]
  IN  IF parsed.kind = "throw" THEN <<>>
      ELSE CASE adapter = "claude-code" -> <<entry("claude-code", "Claude Session <date>")>>
             [] adapter = "gemini-cli" -> <<entry("gemini-cli", "Gemini Session <tag>")>>
             [] adapter = "qchat" -> <<entry("qchat", "Q Chat Session")>>
             [] adapter = "qchat.older" -> <<entry("q-chat", "Q Chat Session")>>
             [] adapter = "codex" -> <<[id |-> "s1"] @@ parsed.value>>

AdapterFiles(adapter) ==
  {ValidFileOf(RegisteredPlatform(adapter)),
   [name |-> [rollout |-> FALSE, ext |-> ".jsonl"], text |-> LinesText(<<CorruptLine>>)]}

AdapterSession ==
  /\ Ready
  /\ \E adapter \in Adapters, produce \in {"parse", "list"} :
       \E file \in AdapterFiles(adapter) :
         /\ arg' = [adapter |-> adapter, produce |-> produce, file |-> file]
         /\ out' = IF produce = "list" THEN Return(ListingEntries(adapter, file))
                   ELSE IF AdapterParse(adapter, file).kind = "throw"
                   THEN Throw([msg |-> "parse"])
                   ELSE Return(<<AdapterParse(adapter, file).value>>)
  /\ op' = "adapter.session"
  /\ pc' = "done"
  /\ io' = <<"fs">>

\* C19: every session an adapter produces, by a full parse or as a listing
\* entry, has the platform the adapter is registered under
C19_PlatformConsistent ==
  (op = "adapter.session" /\ out.kind = "return") =>
    \A i \in 1..Len(out.value) : out.value[i].platform = RegisteredPlatform(arg.adapter)

(***************************************************************************)
(* The MCP server.  A tool handler runs the CLI through the wrapper, which *)
(* throws when the CLI fails; the text of the error carries what the CLI   *)
(* printed, here the set of the phrases the handlers look for.             *)
(***************************************************************************)
ToolNames == {"list_sessions", "push_session", "upload_session", "whoami", "unknown_tool"}

ErrorPhrases ==
  {"No Gemini CLI checkpoints found for project:", "Checkpoint is",
   "old. Use --force to proceed", "Upload cancelled"}

\* the outcomes of SessionbaseCLI.runCommand
CliOutcomes ==
  {[ok |-> TRUE, phrases |-> {}]} \cup {[ok |-> FALSE, phrases |-> p] : p \in SUBSET ErrorPhrases}

ToolParams == [claude : BOOLEAN, gemini : BOOLEAN, qchat : BOOLEAN, codex : BOOLEAN]

ToolResult(text, isError) == [kind |-> "result", text |-> text, isError |-> isError]

\* the try block of a handler: its result, or the error thrown in it
ToolTry(name, params, cli) ==
  IF /\ name = "push_session"
     /\ ~params.claude /\ ~params.gemini /\ ~params.qchat /\ ~params.codex
  THEN Return(ToolResult("No client specified", TRUE))
  ELSE IF cli.ok THEN Return(ToolResult("stdout", FALSE))
  ELSE Throw([phrases |-> cli.phrases])

\* a catch block that reports every failure as a success
ToolCatch_NeverError(name, params, errorMessage) == ToolResult("stdout", FALSE)

\* the catch block of a handler
ToolCatch(name, params, errorMessage) ==
  IF /\ name \in {"push_session", "upload_session"}
     /\ params.gemini
     /\ "No Gemini CLI checkpoints found for project:" \in errorMessage
  THEN ToolResult("No Gemini CLI checkpoints found", TRUE)
  ELSE IF /\ name = "push_session"
          /\ params.gemini
          /\ "Checkpoint is" \in errorMessage
          /\ "old. Use --force to proceed" \in errorMessage
  THEN ToolResult("Stale Gemini Checkpoint Detected", FALSE)
  ELSE IF name = "push_session" /\ params.gemini /\ "Upload cancelled" \in errorMessage
  THEN ToolResult("Upload cancelled due to old checkpoint", FALSE)
  ELSE ToolResult("Error", TRUE)

\* tool.handler(params)
ToolHandler(name, params, cli) ==
  LET try == ToolTry(name, params, cli)
  IN  IF try.kind = "throw" THEN Return(ToolCatch(name, params, try.error.phrases))
      ELSE try

\* the CallTool request handler of the server
CallTool(name, params, cli) ==
  LET try == IF name = "unknown_tool" THEN Throw([phrases |-> {}])
             ELSE ToolHandler(name, params, cli)
  IN  IF try.kind = "throw" THEN ToolResult("Error executing tool", TRUE)
      ELSE try.value

\* whether the handler ran the CLI
RunsCli(name, params) ==
  /\ name # "unknown_tool"
  /\ ToolTry(name, params, [ok |-> TRUE, phrases |-> {}]).value.text = "stdout"

McpCallTool ==
  /\ Ready
  /\ \E name \in ToolNames, params \in ToolParams, cli \in CliOutcomes :
       /\ arg' = [name |-> name, params |-> params, cli |-> cli]
       /\ out' = CallTool(name, params, cli)
       /\ io' = IF RunsCli(name, params) THEN <<"exec">> ELSE <<>>
  /\ op' = "mcp.callTool"
  /\ pc' = "done"

\* the CLI a tool handler ran has failed
ToolFailed == op = "mcp.callTool" /\ io = <<"exec">> /\ ~arg.cli.ok

\* push_session with gemini was refused a stale checkpoint or was cancelled,
\* and the CLI did not report that there are no checkpoints
StaleOrCancelled ==
  /\ arg.name = "push_session"
  /\ arg.params.gemini
  /\ "No Gemini CLI checkpoints found for project:" \notin arg.cli.phrases
  /\ \/ {"Checkpoint is", "old. Use --force to proceed"} \subseteq arg.cli.phrases
     \/ "Upload cancelled" \in arg.cli.phrases

\* C20: when the CLI a tool handler ran fails, the call ends with a tool
\* result whose isError is true
C20_ToolFailureIsError ==
  ToolFailed => /\ pc = "done"
                /\ out.kind = "result"
                /\ out.isError

\* C20 amended: when the CLI a tool handler ran fails, the call ends with a
\* tool result and never with an exception; isError is true unless the tool
\* is push_session with gemini and the failure is a refused stale
\* checkpoint or a cancelled upload, which are returned with isError false
C20_ToolFailureIsResult ==
  ToolFailed => /\ pc = "done"
                /\ out.kind = "result"
                /\ out.isError = ~StaleOrCancelled

\* a push_session of Claude Code whose CLI failed has returned an error
\* result
C20_Witness ==
  /\ ToolFailed /\ pc = "done"
  /\ arg.name = "push_session" /\ arg.params.claude
  /\ out = ToolResult("Error", TRUE)

(***************************************************************************)
(* lastModified of the listing entries.  A storage is listed, and listed   *)
(* again later without having changed in between.                          *)
(***************************************************************************)
InfoSources == {"claude-code", "gemini-cli", "qchat", "list.qchat"}

\* the mtime of the session file, or of the database file of a conversation
StorageTimes == {Now - 600001, Now - 1}

\* Date.now() at the second listing
LaterTimes == {Now, Now + 1000}

\* lastActivity of parseQConversationMetadata and of parseQConversation:
\* Date.now()
lastActivity(now) == now

\* lastModified of the entry a listing builds: stats.mtime for a session
\* file, new Date(sessionData.lastActivity) for a conversation of the
\* database
lastModified(source, mtime, now) ==
  IF source \in {"qchat", "list.qchat"} THEN lastActivity(now) ELSE mtime

buildSessionInfo(source, mtime, now) ==
  [id |-> "s1",
   lastModified |-> lastModified(source, mtime, now),
   messageCount |-> IF source = "qchat" THEN parseQConversationMetadata(OneTurn).messageCount
                    ELSE IF source = "list.qchat" THEN parseQConversation(OneTurn).messageCount
                    ELSE 1]

StorageEvent(source) ==
  IF source \in {"qchat", "list.qchat"} THEN "db" ELSE "fs"

ListSessionInfo ==
  /\ Ready
  /\ \E source \in InfoSources, mtime \in StorageTimes :
       /\ arg' = [source |-> source, mtime |-> mtime, now |-> Now]
       /\ out' = <<buildSessionInfo(source, mtime, Now)>>
       /\ io' = <<StorageEvent(source)>>
  /\ op' = "listSessionInfo"
  /\ pc' = "listed"

\* the same storage is listed again
ListSessionInfoAgain ==
  /\ pc = "listed"
  /\ op = "listSessionInfo"
  /\ \E now \in LaterTimes :
       /\ arg' = [arg EXCEPT !.now = now]
       /\ out' = out \o <<buildSessionInfo(arg.source, arg.mtime, now)>>
  /\ io' = io \o <<StorageEvent(arg.source)>>
  /\ pc' = "done"
  /\ UNCHANGED op

\* C21: the lastModified of the listing entry of a session file is the mtime
\* of the file, and two listings of an unchanged storage, file or database,
\* give the same lastModified
C21_LastModifiedIsStorageTime ==
  op = "listSessionInfo" =>
    /\ StorageEvent(arg.source) = "fs" =>
         \A i \in 1..Len(out) : out[i].lastModified = arg.mtime
    /\ Len(out) = 2 => out[1].lastModified = out[2].lastModified

\* msg.parts?.[0]?.functionCall
HasFunctionCall(msg) ==
  Len(Parts(msg)) > 0 /\ "functionCall" \in DOMAIN Parts(msg)[1]

\* the first GeminiCliProvider.parseGeminiSessionMetadata: the count and the
\* tool calls
parseGeminiSessionMetadataInline(data) ==
  LET actualMessages ==
        SelectSeq(data, LAMBDA msg : ~(Role(msg) = "user" /\ HasFunctionResponse(msg)))
      toolCalls ==
        SelectSeq(data, LAMBDA msg : Role(msg) = "model" /\ HasFunctionCall(msg))
  IN  [messageCount |-> Len(actualMessages), toolCalls |-> Len(toolCalls)]

\* GeminiCliProvider.parseGeminiSessionMetadata
parseGeminiSessionMetadata(data) ==
  [messageCount |-> Len(filterActualMessages(data))]

GeminiMetadataOps == {"gemini.parseGeminiSessionMetadata", "gemini.parseGeminiSessionMetadata.inline"}

ParseGeminiSessionMetadata ==
  /\ Ready
  /\ \E data \in GeminiCheckpoints, parser \in GeminiMetadataOps :
       /\ arg' = data
       /\ op' = parser
       /\ out' = IF parser = "gemini.parseGeminiSessionMetadata"
                 THEN parseGeminiSessionMetadata(data)
                 ELSE parseGeminiSessionMetadataInline(data)
  /\ pc' = "done"
  /\ io' = <<"fs">>

\* the messages of a checkpoint that are neither a function call nor a
\* function response
HumanFacing(data) ==
  SelectSeq(data, LAMBDA msg : ~HasFunctionCall(msg) /\ ~HasFunctionResponse(msg))

\* C22: the message count of a Gemini checkpoint counts neither the
\* function-call nor the function-response messages
C22_FunctionShapesNotCounted ==
  op \in GeminiMetadataOps => out.messageCount = Len(HumanFacing(arg))

(***************************************************************************)
(* The Claude Code storage directory of a working directory.               *)
(***************************************************************************)
MaxPath == 4

PathChars == {"/", "a", "-"}

\* the absolute paths of at most MaxPath characters
AbsolutePaths == {<<"/">> \o rest : rest \in SeqsUpTo(PathChars, MaxPath - 1)}

\* ClaudeCodeProvider.encodeProjectPath: path.replace(/\//g, '-')
encodeProjectPath(path) == [i \in 1..Len(path) |-> IF path[i] = "/" THEN "-" ELSE path[i]]

\* ClaudeCodeProvider.decodeProjectPath: encodedPath.replace(/-/g, '/')
decodeProjectPath(encodedPath) ==
  [i \in 1..Len(encodedPath) |-> IF encodedPath[i] = "-" THEN "/" ELSE encodedPath[i]]

\* a session is stored for the working directory and the directory is read
\* back by a listing of all projects
ScanAllProjects ==
  /\ Ready
  /\ \E path \in AbsolutePaths :
       /\ arg' = path
       /\ out' = [encodedPath |-> encodeProjectPath(path),
                  projectPath |-> decodeProjectPath(encodeProjectPath(path))]
  /\ op' = "claude.scanAllProjects"
  /\ pc' = "done"
  /\ io' = <<"fs">>

\* C23: decoding the storage directory of an absolute working directory
\* gives the working directory back
C23_EncodingReversible ==
  op = "claude.scanAllProjects" => out.projectPath = arg

\* C24: a pull given --no-validate-cwd (options.validateCwd is false) never
\* warns about a context mismatch and never waits for a confirmation: the
\* session is written without a prompt
C24_NoValidateCwdSkipsValidation ==
  (op = "pull" /\ ~arg.options.validateCwd) =>
    /\ pc # "confirm"
    /\ "prompt" \notin {io[i] : i \in 1..Len(io)}

(***************************************************************************)
(* push_session of the MCP server down to the CLI it runs: the handler     *)
(* hands its parameters to SessionbaseCLI.pushSession, which builds the    *)
(* command line and runs the push command without a terminal.              *)
(***************************************************************************)
PushSessionParams ==
  [claude : BOOLEAN, gemini : BOOLEAN, qchat : BOOLEAN, codex : BOOLEAN, force : BOOLEAN]

\* the options of the command line SessionbaseCLI.pushSession builds: only
\* --claude, --gemini, --qchat, --private, --title, --tags and --summary are
\* ever appended
pushSessionArgs(options) ==
  [claude |-> options.claude, gemini |-> options.gemini, qchat |-> options.qchat,
   force |-> FALSE]

\* the push command the wrapper runs: no file, no terminal
CliPush(command, options, dir, upload) ==
  LET in == [file |-> NoFileArg, options |-> pushSessionArgs(options),
             overrides |-> NoOverrides, available |-> TRUE, found |-> TRUE,
             dir |-> dir, tty |-> FALSE, input |-> <<"n">>, upload |-> upload]
  IN  IF command = "push" THEN pushCommand(in) ELSE pushCommandDetect(in)

\* runCommand: a CLI that exits with a code other than 0 makes the wrapper
\* throw an error that carries what the CLI printed
CliOutcome(step) ==
  [ok |-> step.out.code = 0,
   phrases |-> IF step.out.msg = "Push failed: Checkpoint is old"
               THEN {"Checkpoint is", "old. Use --force to proceed"}
               ELSE {}]

McpPushSession ==
  /\ Ready
  /\ \E params \in PushSessionParams, command \in {"push", "push.detect"},
        dir \in {NoDir, FreshDir, StaleDir}, upload \in {"ok", "error"} :
       LET ran == RunsCli("push_session", params)
           step == CliPush(command, params, dir, upload)
           cli == IF ran THEN CliOutcome(step) ELSE [ok |-> TRUE, phrases |-> {}]
       IN  /\ arg' = [params |-> params, command |-> command, dir |-> dir,
                      upload |-> upload]
           /\ out' = [result |-> CallTool("push_session", params, cli),
                      payload |-> IF ran THEN step.out.payload ELSE NoPayload]
           /\ io' = IF ran THEN <<"exec">> \o step.io ELSE <<>>
  /\ op' = "mcp.pushSession"
  /\ pc' = "done"

\* push_session is called for Gemini CLI alone with force = true, and the
\* newest checkpoint is more than ten minutes old
ForcedStalePush ==
  /\ op = "mcp.pushSession"
  /\ arg.params.gemini /\ ~arg.params.claude /\ ~arg.params.qchat /\ ~arg.params.codex
  /\ arg.params.force
  /\ arg.dir = StaleDir
  /\ arg.upload = "ok"

\* C25: push_session with force = true pushes a stale Gemini checkpoint: the
\* session is uploaded and the tool result is not the refusal of the
\* checkpoint
C25_ForcePushesStale ==
  ForcedStalePush =>
    /\ out.payload # NoPayload
    /\ "net" \in {io[i] : i \in 1..Len(io)}
    /\ out.result.text = "stdout"

(***************************************************************************)
(* The App component of the TUI.  Its state (state, selectedSession,       *)
(* uploadResult, error) is held in out while the TUI runs; event is the    *)
(* last thing that happened to it.                                         *)
(***************************************************************************)
AppKeys == {"r", "q", "x"}

\* what an upload meets: whether a token is stored, the platform of the
\* session, whether its file parses to messages, and the answer of the API
AppInputs ==
  [token : BOOLEAN, platform : {"claude-code", "gemini-cli", "qchat"},
   file : {"messages", "no messages", "corrupt"}, response : {"ok", "500", "network"}]

AppState(state, selectedSession, uploadResult, error, event) ==
  [state |-> state, selectedSession |-> selectedSession, uploadResult |-> uploadResult,
   error |-> error, event |-> event]

\* render(<App />): useState('list'), null, null, null
LaunchTUI ==
  /\ Ready
  /\ \E in \in AppInputs : arg' = in
  /\ out' = AppState("list", None, None, None, "launch")
  /\ op' = "tui.app"
  /\ pc' = "tui"
  /\ io' = <<>>

\* handleUpload up to its first await: the session list reports the session
\* the user has chosen
HandleUpload ==
  /\ op = "tui.app" /\ pc = "tui"
  /\ out.state = "list"
  /\ out' = AppState("uploading", "s1", out.uploadResult, out.error, "upload")
  /\ UNCHANGED <<op, pc, arg, io>>

\* the error handleUpload ends with, null when the upload succeeds
uploadError(in) ==
  IF ~in.token THEN "Authentication required"
  ELSE IF in.platform = "qchat" THEN "Q Chat session upload not yet implemented in TUI mode"
  ELSE IF in.file = "corrupt" THEN "Unexpected token"
  ELSE IF in.file = "no messages" THEN "Session file must contain a \"messages\" array"
  ELSE IF in.response = "500" THEN "Upload failed: 500"
  ELSE IF in.response = "network" THEN "fetch failed"
  ELSE None

\* the rest of handleUpload
HandleUploadEnd ==
  /\ op = "tui.app" /\ pc = "tui"
  /\ out.state = "uploading"
  /\ out' = IF uploadError(arg) = None
            THEN AppState("success", out.selectedSession, "id1", out.error, "uploaded")
            ELSE AppState("error", out.selectedSession, out.uploadResult, uploadError(arg),
                          "failed")
  /\ io' = io \o (IF ~arg.token THEN <<>>
                  ELSE IF arg.platform = "qchat" THEN <<>>
                  ELSE IF arg.file # "messages" THEN <<"fs">>
                  ELSE <<"fs", "net">>)
  /\ UNCHANGED <<op, pc, arg>>

\* handleRetry
handleRetry(app, key) == AppState("list", None, None, None, key)

\* what a key does to the App: the session list, rendered in the list state
\* only, is the only component that reads the keyboard; App itself has no
\* input handler, and handleRetry is passed to no component
appKey(app, key) == [app EXCEPT !.event = key]

AppKey ==
  /\ op = "tui.app" /\ pc = "tui"
  /\ \E key \in AppKeys :
       /\ out' = appKey(out, key)
       /\ pc' = IF out.state = "list" /\ key = "q" THEN "done" ELSE pc
  /\ UNCHANGED <<op, arg, io>>

\* C26: when the App is in the error state and 'r' is pressed, it is in the
\* list state afterwards, with error, upload result and selected session
\* cleared
C26_RetryReturnsToList ==
  [][(/\ op = "tui.app" /\ pc = "tui"
      /\ out.state = "error"
      /\ out'.event = "r" /\ out.event # "r")
       => /\ out'.state = "list"
          /\ out'.error = None
          /\ out'.uploadResult = None
          /\ out'.selectedSession = None]_vars

\* ---------------------------------------------------------------------
\* The session list of the TUI (SessionList component).  An action is one
\* event (mount, key press, resize, completion of a load) together with
\* the re-render and the effects it triggers; indices are 0-based as in
\* the component.
\* ---------------------------------------------------------------------

Max(a, b) == IF a > b THEN a ELSE b

RESERVED_LINES == 17

SESSION_ITEM_HEIGHT == 3

\* loads started during one run of the list
MaxLoads == 3

\* stdout.rows of the terminal
TerminalRows == {20, 27}

ListScopes == {"cwd", "all"}

PlatformFilters == {"all", "claude", "gemini", "qchat"}

ListKeys == {"up", "down", "return", "q", "r", "g", "c", "1", "2", "3", "4"}

SessionsByPlatform(c, g, q) == [claude |-> c, gemini |-> g, qchat |-> q]

\* what getAllSessions finds for the current directory and globally
StoredSessions ==
  { [cwd |-> SessionsByPlatform(0, 0, 0), all |-> SessionsByPlatform(0, 0, 0)],
    [cwd |-> SessionsByPlatform(0, 0, 0), all |-> SessionsByPlatform(1, 2, 0)],
    [cwd |-> SessionsByPlatform(1, 0, 0), all |-> SessionsByPlatform(2, 1, 1)],
    [cwd |-> SessionsByPlatform(1, 2, 0), all |-> SessionsByPlatform(1, 2, 0)] }

SessionListInputs == [rows : TerminalRows, stored : StoredSessions]

VIEWPORT_SIZE(terminalHeight) ==
  Max(1, (terminalHeight - RESERVED_LINES) \div SESSION_ITEM_HEIGHT) - 1

\* Object.entries order of SessionsByPlatform
PlatformOrder == <<"claude", "gemini", "qchat">>

\* stable sort by session count, descending
sortPlatformsBySessionCount(byPlatform) ==
  LET before(i, j) ==
        \/ byPlatform[PlatformOrder[i]] > byPlatform[PlatformOrder[j]]
        \/ /\ byPlatform[PlatformOrder[i]] = byPlatform[PlatformOrder[j]]
           /\ i < j
      rank(i) == 1 + Cardinality({j \in 1..3 : j # i /\ before(j, i)})
  IN  [r \in 1..3 |-> PlatformOrder[CHOOSE i \in 1..3 : rank(i) = r]]

\* a session of the list is represented by its platform
flatSessions(byPlatform) ==
  LET sorted == sortPlatformsBySessionCount(byPlatform)
      of(p) == [i \in 1..byPlatform[p] |-> p]
  IN  of(sorted[1]) \o of(sorted[2]) \o of(sorted[3])

filteredSessions(s) ==
  IF s.platformFilter = "all"
  THEN s.allSessions
  ELSE SelectSeq(s.allSessions, LAMBDA session : session = s.platformFilter)

\* the state of the component after its first render
SessionListState(rows) ==
  [allSessions |-> <<>>, isLoading |-> TRUE, selectedIndex |-> 0,
   scope |-> "cwd", platformFilter |-> "all", terminalHeight |-> rows,
   viewportStart |-> 0,
   pending |-> {}, started |-> 0, shown |-> 0, shownScope |-> "none",
   event |-> "mount"]

\* the effect on [filteredSessions, VIEWPORT_SIZE]
resetSelection_Skip(s) == s

resetSelection(s) ==
  LET n == Len(filteredSessions(s))
      newIndex == n - 1
  IN  IF n > 0
      THEN [s EXCEPT !.selectedIndex = newIndex,
                     !.viewportStart =
                        Max(0, newIndex - VIEWPORT_SIZE(s.terminalHeight) + 1)]
      ELSE [s EXCEPT !.selectedIndex = 0, !.viewportStart = 0]

updateViewport(s, newSelectedIndex, totalSessions) ==
  LET size == VIEWPORT_SIZE(s.terminalHeight)
      viewportEnd == s.viewportStart + size - 1
  IN  IF newSelectedIndex < s.viewportStart
      THEN Max(0, newSelectedIndex)
      ELSE IF newSelectedIndex > viewportEnd
           THEN Max(0, Min(totalSessions - size, newSelectedIndex - size + 1))
           ELSE s.viewportStart

\* loadSessions up to its await: the load is in flight; it keeps the scope
\* and the viewport size of the render that started it
loadSessionsStart(s) ==
  [s EXCEPT !.isLoading = TRUE,
            !.started = s.started + 1,
            !.pending = s.pending \union
               {[id |-> s.started + 1, scope |-> s.scope,
                 rows |-> s.terminalHeight]}]

\* setScope followed by the effect on [scope]
setScope(s, scope) ==
  IF s.scope = scope THEN s
  ELSE loadSessionsStart([s EXCEPT !.scope = scope])

\* setPlatformFilter followed by the effect on [filteredSessions, ...]
setPlatformFilter(s, filter) ==
  IF s.platformFilter = filter THEN s
  ELSE resetSelection([s EXCEPT !.platformFilter = filter])

\* loadSessions from its await on, for the load `load` completing
loadSessionsEnd(s, load, stored) ==
  LET byPlatform == IF load.scope = "all" THEN stored.all ELSE stored.cwd
      totalSessions ==
        byPlatform.claude + byPlatform.gemini + byPlatform.qchat
      flat == flatSessions(byPlatform)
      initialIndex == Max(0, Len(flat) - 1)
      rest == [s EXCEPT !.pending = s.pending \ {load},
                        !.isLoading = FALSE,
                        !.event = "loaded"]
  IN  IF totalSessions = 0 /\ load.scope = "cwd"
      THEN setScope(rest, "all")
      ELSE resetSelection(
             [rest EXCEPT !.allSessions = flat,
                          !.selectedIndex = initialIndex,
                          !.viewportStart =
                             Max(0, initialIndex - VIEWPORT_SIZE(load.rows) + 1),
                          !.shown = load.id,
                          !.shownScope = load.scope])

\* the useInput handler
useInput(s, key) ==
  LET n == Len(filteredSessions(s))
      t == [s EXCEPT !.event = "key"]
  IN  CASE key = "up" /\ s.selectedIndex > 0 ->
             [t EXCEPT !.selectedIndex = s.selectedIndex - 1,
                       !.viewportStart = updateViewport(s, s.selectedIndex - 1, n)]
        [] key = "down" /\ s.selectedIndex < n - 1 ->
             [t EXCEPT !.selectedIndex = s.selectedIndex + 1,
                       !.viewportStart = updateViewport(s, s.selectedIndex + 1, n)]
        [] key = "r" -> loadSessionsStart(t)
        [] key = "g" /\ s.scope = "cwd" -> setScope(t, "all")
        [] key = "c" /\ s.scope = "all" -> setScope(t, "cwd")
        [] key = "1" -> setPlatformFilter(t, "all")
        [] key = "2" -> setPlatformFilter(t, "claude")
        [] key = "3" -> setPlatformFilter(t, "gemini")
        [] key = "4" -> setPlatformFilter(t, "qchat")
        [] OTHER -> t

\* Enter hands the selected session to onUpload, q calls onExit: both
\* leave the list
LeavesList(s, key) ==
  \/ key = "q"
  \/ key = "return" /\ s.selectedIndex \in 0..(Len(filteredSessions(s)) - 1)

\* mounting runs the effect on [scope] and the one on [filteredSessions, ...]
SessionListMount ==
  /\ Ready
  /\ \E in \in SessionListInputs :
       /\ arg' = in
       /\ out' = resetSelection(loadSessionsStart(SessionListState(in.rows)))
  /\ op' = "tui.sessionList"
  /\ pc' = "tui"
  /\ io' = <<>>

SessionListLoaded ==
  /\ op = "tui.sessionList" /\ pc = "tui"
  /\ \E load \in out.pending :
       LET next == loadSessionsEnd(out, load, arg.stored)
       IN  /\ next.started <= MaxLoads
           /\ out' = next
  /\ io' = Append(io, "fs")
  /\ UNCHANGED <<op, pc, arg>>

SessionListKey ==
  /\ op = "tui.sessionList" /\ pc = "tui"
  /\ \E key \in ListKeys :
       LET next == useInput(out, key)
       IN  /\ next.started <= MaxLoads
           /\ out' = next
           /\ pc' = IF LeavesList(out, key) THEN "done" ELSE "tui"
  /\ UNCHANGED <<op, arg, io>>

\* the resize listener: setTerminalHeight, then the effect on
\* [filteredSessions, VIEWPORT_SIZE] when the viewport size changes
SessionListResize ==
  /\ op = "tui.sessionList" /\ pc = "tui"
  /\ \E rows \in TerminalRows \ {out.terminalHeight} :
       LET t == [out EXCEPT !.terminalHeight = rows, !.event = "resize"]
       IN  out' = IF VIEWPORT_SIZE(rows) = VIEWPORT_SIZE(out.terminalHeight)
                  THEN t
                  ELSE resetSelection(t)
  /\ UNCHANGED <<op, pc, arg, io>>

InSessionList == op = "tui.sessionList" /\ pc = "tui"

\* C27: after any sequence of arrow keys, filter changes, scope switches,
\* resizes and reloads the selected index is an index of the filtered list
\* when that list is non-empty, and 0 when it is empty
C27_SelectedIndexInRange ==
  InSessionList =>
    LET n == Len(filteredSessions(out))
    IN  IF n > 0 THEN out.selectedIndex \in 0..(n - 1)
                 ELSE out.selectedIndex = 0

\* a load has completed under an active platform filter that hides some of
\* the loaded sessions
C27_Witness ==
  /\ InSessionList
  /\ out.event = "loaded"
  /\ out.platformFilter # "all"
  /\ Len(filteredSessions(out)) > 0
  /\ Len(filteredSessions(out)) < Len(out.allSessions)
  /\ out.shown >= 2

\* the slice of the filtered list that is rendered
visibleSessions(s) ==
  LET n == Len(filteredSessions(s))
      end == Min(s.viewportStart + VIEWPORT_SIZE(s.terminalHeight), n)
  IN  [i \in 1..Max(0, end - s.viewportStart) |->
         filteredSessions(s)[s.viewportStart + i]]

\* C28: for every terminal height and whenever the filtered list is
\* non-empty, the selected session is inside the rendered viewport and the
\* viewport shows at least one session
C28_SelectionInViewport ==
  (InSessionList /\ Len(filteredSessions(out)) > 0) =>
    /\ out.viewportStart <= out.selectedIndex
    /\ out.selectedIndex < out.viewportStart + VIEWPORT_SIZE(out.terminalHeight)
    /\ Len(visibleSessions(out)) >= 1

\* C29: once every load has completed, the list on display is the result
\* of the load that was started last and was loaded for the current scope
C29_LastLoadWins ==
  (InSessionList /\ out.pending = {} /\ out.started >= 2) =>
    /\ out.shown = out.started
    /\ out.shownScope = out.scope

\* ---------------------------------------------------------------------
\* Token storage: keytar secure storage with a JSON file as fallback
\* ---------------------------------------------------------------------

Tokens == {"old", "new"}

\* SESSIONBASE_TOKEN: "" stands for an unset variable
EnvTokens == {"", "env"}

\* the token kept by keytar and the one in token.json, None when absent
TokenStores == [keychain : Tokens \union {None}, file : Tokens \union {None}]

TokenInputs ==
  [env : EnvTokens, store : TokenStores, token : Tokens,
   setOk : BOOLEAN, getOk : BOOLEAN]

\* storeToken: the file is written only when keytar.setPassword throws
storeToken(store, token, keytarOk) ==
  IF keytarOk
  THEN [store EXCEPT !.keychain = token]
  ELSE [store EXCEPT !.file = token]

\* getToken: environment variable, then keytar, then the file
getToken(env, store, keytarOk) ==
  IF env # "" THEN env
  ELSE IF keytarOk /\ store.keychain # None THEN store.keychain
  ELSE store.file

StoreToken ==
  /\ Ready
  /\ \E in \in TokenInputs :
       /\ arg' = in
       /\ out' = [store |-> storeToken(in.store, in.token, in.setOk),
                  result |-> None]
       /\ io' = <<IF in.setOk THEN "keytar" ELSE "fs">>
  /\ op' = "auth.token"
  /\ pc' = "stored"

GetToken ==
  /\ op = "auth.token" /\ pc = "stored"
  /\ out' = [out EXCEPT !.result = getToken(arg.env, out.store, arg.getOk)]
  /\ pc' = "done"
  /\ UNCHANGED <<op, arg, io>>

\* C30: with SESSIONBASE_TOKEN unset, the getToken that follows storeToken(t)
\* returns t, whether keytar succeeds or fails on either call and whatever
\* was stored before
C30_StoreThenGet ==
  (op = "auth.token" /\ pc = "done" /\ arg.env = "") =>
    out.result = arg.token

Next ==
  \/ GeneratePreview
  \/ InlinePreview
  \/ ParseClaudeSession
  \/ ParseClaudeSessionMetadata
  \/ TuiParseClaudeSession
  \/ GeminiFindMostRecentSession
  \/ GeminiFindMostRecentSessionInline
  \/ ParseQConversationMetadata
  \/ ParseQConversationMetadataInline
  \/ TuiParseQConversation
  \/ PullCommand
  \/ PullAnswer
  \/ DetectProvider
  \/ PushCommand
  \/ PushCommandDetect
  \/ LsCommand
  \/ FindMostRecentGeminiSession
  \/ ClientFetch
  \/ ClientAttempt
  \/ PollDeviceComplete
  \/ PollAttempt
  \/ TuiGetAllSessions
  \/ BuildSessionPayload
  \/ AdapterSession
  \/ McpCallTool
  \/ ListSessionInfo
  \/ ListSessionInfoAgain
  \/ ParseGeminiSessionMetadata
  \/ ScanAllProjects
  \/ McpPushSession
  \/ LaunchTUI
  \/ HandleUpload
  \/ HandleUploadEnd
  \/ AppKey
  \/ SessionListMount
  \/ SessionListLoaded
  \/ SessionListKey
  \/ SessionListResize
  \/ StoreToken
  \/ GetToken
  \/ Exit

Spec == Init /\ [][Next]_vars

====
